---- MODULE Spec2Model ----
(***************************************************************************)
(* A model of the lookbook browse surface: the PersonDetailPage component  *)
(* (frontend/src/pages/PersonDetailPage.jsx), its effects, its event       *)
(* handlers and the completions of the requests it issues.                 *)
(*                                                                         *)
(* One action is one event of the browser's event loop: a user event, a    *)
(* timer or the resolution of a request.  An event runs its handler, then  *)
(* React renders and runs the effects whose dependencies changed, with the *)
(* values of that render, until no state changes (Settle): all of this is  *)
(* synchronous, so it is part of the action.                               *)
(***************************************************************************)
EXTENDS Integers, Sequences, FiniteSets, TLC

\* ------------------------------------------------------------------ bounds
NumProfiles == 17
NumProjects == 9
MaxEvents == 2
MaxInFlight == 2
MaxFaults == 1
MaxFacet == 2
MaxEmbedded == 4
MaxPrefetch == 2

\* ------------------------------------------------------- program constants
GridPageSize == 8
ListLimit == 100
\* time is counted in ticks of a quarter of a second: useDebounce(..., 500) waits
\* two ticks, the prefetch's setTimeout(..., 300) one
DebounceTicks == 2
PrefetchTicks == 1

\* ------------------------------------------------------------ pure helpers
Min(a, b) == IF a < b THEN a ELSE b
Max(a, b) == IF a > b THEN a ELSE b

\* Math.ceil(total / 8) for total >= 0
CeilDiv(n, d) == (n + d - 1) \div d

\* String.prototype.toLowerCase on the letters the data uses; a string is a
\* tuple of one-character strings
LowerChar(ch) ==
    CASE ch = "A" -> "a"
      [] ch = "B" -> "b"
      [] ch = "D" -> "d"
      [] ch = "E" -> "e"
      [] ch = "F" -> "f"
      [] ch = "G" -> "g"
      [] ch = "O" -> "o"
      [] ch = "P" -> "p"
      [] ch = "R" -> "r"
      [] OTHER -> ch

ToLowerCase(str) == [i \in 1..Len(str) |-> LowerChar(str[i])]

\* String.prototype.includes
Includes(hay, needle) ==
    \E i \in 0..(Len(hay) - Len(needle)) : SubSeq(hay, i + 1, i + Len(needle)) = needle

\* Array.prototype.includes / some over a tuple
InArray(arr, x) == \E i \in 1..Len(arr) : arr[i] = x

\* Array.prototype.findIndex(p => p.slug === slug): 0-based, -1 when absent
FindIndex(arr, slug) ==
    IF InArray(arr, slug)
    THEN (CHOOSE i \in 1..Len(arr) : arr[i] = slug /\ \A j \in 1..(i - 1) : arr[j] # slug) - 1
    ELSE -1

\* arr.slice(offset, offset + limit)
Slice(arr, offset, limit) == SubSeq(arr, offset + 1, Min(Len(arr), offset + limit))

\* String.prototype.trim().length > 0: some character is not a space
TrimIsEmpty(str) == \A i \in 1..Len(str) : str[i] = " "

\* checked ? [...arr, x] : arr.filter(s => s !== x)
ToggleIn(arr, x) ==
    IF InArray(arr, x) THEN SelectSeq(arr, LAMBDA y : y # x) ELSE Append(arr, x)

\* -------------------------------------------------------------- the data
\* An entity is known by its slug; its other fields are functions of the slug.
Ada == <<"A", "d", "a">>
Bo == <<"B", "o">>
Go == <<"G", "o">>
Rust == <<"R", "u", "s", "t">>
Python == <<"P", "y", "t", "h", "o", "n">>
Fin == <<"F", "i", "n">>
Edu == <<"E", "d", "u">>
App == <<"A", "p", "p">>
Ego == <<"e", "g", "o">>
Ads == <<"a", "d", "s">>
NoText == <<>>

ProfileSlugs == 1..NumProfiles
ProjectSlugs == 1..NumProjects

Profile(slug) ==
    [slug |-> slug,
     name |-> IF slug % 8 = 1 THEN Ada ELSE Bo,
     bio |-> NoText,
     skills |-> IF slug % 2 = 0 THEN <<Go>> ELSE <<Rust>>,
     industry_expertise |-> IF slug % 3 = 0 THEN <<Fin>> ELSE <<>>,
     open_to_work |-> (slug % 4 = 0)]

Project(slug) ==
    [slug |-> slug,
     title |-> IF slug % 4 = 1 THEN App ELSE Bo,
     summary |-> NoText,
     short_description |-> NoText,
     skills |-> IF slug % 2 = 1 THEN <<Go>> ELSE <<Rust>>,
     sectors |-> IF slug % 3 = 0 THEN <<Edu>> ELSE <<>>]

\* person.projects and project.participants: profile p took part in one project
PersonProjects(slug) == <<((slug - 1) % NumProjects) + 1>>

ProjectParticipants(slug) ==
    SelectSeq([i \in 1..NumProfiles |-> i], LAMBDA p : InArray(PersonProjects(p), slug))

DefaultPeopleFilters == [search |-> NoText, skills |-> <<>>, industries |-> <<>>, openToWork |-> FALSE]
DefaultProjectFilters == [search |-> NoText, skills |-> <<>>, sectors |-> <<>>]

\* ----------------------------------------------------- the filter predicates
\* filteredProfiles' callback without the length guard of its skills filter
ProfileIncludedNoEmptyGuard(profile, search, f) ==
    /\ (search # NoText) =>
          LET searchLower == ToLowerCase(search)
          IN \/ Includes(ToLowerCase(profile.name), searchLower)
             \/ (profile.bio # NoText /\ Includes(ToLowerCase(profile.bio), searchLower))
             \/ \E i \in 1..Len(profile.skills) :
                   Includes(ToLowerCase(profile.skills[i]), searchLower)
    /\ \E i \in 1..Len(f.skills) : InArray(profile.skills, f.skills[i])
    /\ (Len(f.industries) > 0) =>
          \E i \in 1..Len(f.industries) : InArray(profile.industry_expertise, f.industries[i])
    /\ ~(f.openToWork /\ ~profile.open_to_work)

\* filteredProfiles' callback with every() in place of some() in its facet filters
ProfileIncludedNeedsAll(profile, search, f) ==
    /\ (search # NoText) =>
          LET searchLower == ToLowerCase(search)
          IN \/ Includes(ToLowerCase(profile.name), searchLower)
             \/ (profile.bio # NoText /\ Includes(ToLowerCase(profile.bio), searchLower))
             \/ \E i \in 1..Len(profile.skills) :
                   Includes(ToLowerCase(profile.skills[i]), searchLower)
    /\ (Len(f.skills) > 0) =>
          \A i \in 1..Len(f.skills) : InArray(profile.skills, f.skills[i])
    /\ (Len(f.industries) > 0) =>
          \A i \in 1..Len(f.industries) : InArray(profile.industry_expertise, f.industries[i])
    /\ ~(f.openToWork /\ ~profile.open_to_work)

\* filteredProfiles' callback comparing the search term without toLowerCase()
ProfileIncludedCaseSensitive(profile, search, f) ==
    /\ (search # NoText) =>
          \/ Includes(profile.name, search)
          \/ (profile.bio # NoText /\ Includes(profile.bio, search))
          \/ \E i \in 1..Len(profile.skills) : Includes(profile.skills[i], search)
    /\ (Len(f.skills) > 0) =>
          \E i \in 1..Len(f.skills) : InArray(profile.skills, f.skills[i])
    /\ (Len(f.industries) > 0) =>
          \E i \in 1..Len(f.industries) : InArray(profile.industry_expertise, f.industries[i])
    /\ ~(f.openToWork /\ ~profile.open_to_work)

\* filteredProfiles' callback without its open to work filter
ProfileIncludedIgnoresOpenToWork(profile, search, f) ==
    /\ (search # NoText) =>
          LET searchLower == ToLowerCase(search)
          IN \/ Includes(ToLowerCase(profile.name), searchLower)
             \/ (profile.bio # NoText /\ Includes(ToLowerCase(profile.bio), searchLower))
             \/ \E i \in 1..Len(profile.skills) :
                   Includes(ToLowerCase(profile.skills[i]), searchLower)
    /\ (Len(f.skills) > 0) =>
          \E i \in 1..Len(f.skills) : InArray(profile.skills, f.skills[i])
    /\ (Len(f.industries) > 0) =>
          \E i \in 1..Len(f.industries) : InArray(profile.industry_expertise, f.industries[i])

\* filteredProfiles' callback: search is the debounced term, f the people filters
ProfileIncluded(profile, search, f) ==
    /\ (search # NoText) =>
          LET searchLower == ToLowerCase(search)
          IN \/ Includes(ToLowerCase(profile.name), searchLower)
             \/ (profile.bio # NoText /\ Includes(ToLowerCase(profile.bio), searchLower))
             \/ \E i \in 1..Len(profile.skills) :
                   Includes(ToLowerCase(profile.skills[i]), searchLower)
    /\ (Len(f.skills) > 0) =>
          \E i \in 1..Len(f.skills) : InArray(profile.skills, f.skills[i])
    /\ (Len(f.industries) > 0) =>
          \E i \in 1..Len(f.industries) : InArray(profile.industry_expertise, f.industries[i])
    /\ ~(f.openToWork /\ ~profile.open_to_work)

\* filteredProjects' callback with every() in place of some() in its skills filter
ProjectIncludedNeedsAll(project, search, f) ==
    /\ (search # NoText) =>
          LET searchLower == ToLowerCase(search)
          IN \/ Includes(ToLowerCase(project.title), searchLower)
             \/ (project.summary # NoText /\ Includes(ToLowerCase(project.summary), searchLower))
             \/ (project.short_description # NoText
                 /\ Includes(ToLowerCase(project.short_description), searchLower))
             \/ \E i \in 1..Len(project.skills) :
                   Includes(ToLowerCase(project.skills[i]), searchLower)
    /\ (Len(f.skills) > 0) =>
          \A i \in 1..Len(f.skills) : InArray(project.skills, f.skills[i])
    /\ (Len(f.sectors) > 0) =>
          \E i \in 1..Len(f.sectors) : InArray(project.sectors, f.sectors[i])

\* filteredProjects' callback
ProjectIncluded(project, search, f) ==
    /\ (search # NoText) =>
          LET searchLower == ToLowerCase(search)
          IN \/ Includes(ToLowerCase(project.title), searchLower)
             \/ (project.summary # NoText /\ Includes(ToLowerCase(project.summary), searchLower))
             \/ (project.short_description # NoText
                 /\ Includes(ToLowerCase(project.short_description), searchLower))
             \/ \E i \in 1..Len(project.skills) :
                   Includes(ToLowerCase(project.skills[i]), searchLower)
    /\ (Len(f.skills) > 0) =>
          \E i \in 1..Len(f.skills) : InArray(project.skills, f.skills[i])
    /\ (Len(f.sectors) > 0) =>
          \E i \in 1..Len(f.sectors) : InArray(project.sectors, f.sectors[i])

\* filteredPersonProjects' callback, with its three has... flags
PersonProjectIncluded(project, search, f) ==
    LET hasSearch == search # NoText /\ ~TrimIsEmpty(search)
        hasSkillsFilter == Len(f.skills) > 0
        hasSectorsFilter == Len(f.sectors) > 0
    IN /\ hasSearch =>
             LET searchLower == ToLowerCase(search)
             IN \/ Includes(ToLowerCase(project.title), searchLower)
                \/ (project.summary # NoText /\ Includes(ToLowerCase(project.summary), searchLower))
                \/ (project.short_description # NoText
                    /\ Includes(ToLowerCase(project.short_description), searchLower))
                \/ \E i \in 1..Len(project.skills) :
                      Includes(ToLowerCase(project.skills[i]), searchLower)
       /\ hasSkillsFilter =>
             /\ Len(project.skills) > 0
             /\ \E i \in 1..Len(f.skills) : InArray(project.skills, f.skills[i])
       /\ hasSectorsFilter =>
             /\ Len(project.sectors) > 0
             /\ \E i \in 1..Len(f.sectors) : InArray(project.sectors, f.sectors[i])

\* filteredPersonProjects making its array checks whether or not a filter is on
FilterPersonProjectsNoShortcut(projects, search, f) ==
    SelectSeq(projects, LAMBDA x :
        Len(x.skills) > 0 /\ Len(x.sectors) > 0 /\ PersonProjectIncluded(x, search, f))

\* filteredPersonProjects on the array person.projects (an absent or non-array
\* person.projects is the empty array)
FilterPersonProjects(projects, search, f) ==
    LET hasSearch == search # NoText /\ ~TrimIsEmpty(search)
        hasSkillsFilter == Len(f.skills) > 0
        hasSectorsFilter == Len(f.sectors) > 0
    IN IF ~hasSearch /\ ~hasSkillsFilter /\ ~hasSectorsFilter
       THEN projects
       ELSE SelectSeq(projects, LAMBDA x : PersonProjectIncluded(x, search, f))

\* ------------------------------------------------------------- the server
\* The data source of section 6: listPage(filters, page, pageSize) -> {items, total}
\* and the unfiltered list getAll({limit: 100}).  A request q carries
\* [mode, layout, page, search, skills, facet, openToWork].
AllSlugs(mode) ==
    IF mode = "people" THEN [i \in 1..NumProfiles |-> i] ELSE [i \in 1..NumProjects |-> i]

ServerMatches(q) ==
    IF q.mode = "people"
    THEN SelectSeq(AllSlugs("people"), LAMBDA s :
            ProfileIncluded(Profile(s), q.search,
               [search |-> q.search, skills |-> q.skills, industries |-> q.facet,
                openToWork |-> q.openToWork]))
    ELSE SelectSeq(AllSlugs("projects"), LAMBDA s :
            ProjectIncluded(Project(s), q.search,
               [search |-> q.search, skills |-> q.skills, sectors |-> q.facet]))

ServerListPage(q) ==
    LET limit == IF q.layout = "grid" THEN GridPageSize ELSE ListLimit
        offset == IF q.layout = "grid" THEN q.page * GridPageSize ELSE 0
    IN [data |-> Slice(ServerMatches(q), offset, limit),
        total |-> Len(ServerMatches(q))]

ServerFullList(mode) == Slice(AllSlugs(mode), 0, ListLimit)

\* ---------------------------------------------------------------- state
VARIABLES
    path,                   \* the route: [mode, slug], slug 0 when the route has none
    mounted,                \* the component is mounted
    person, project,        \* the loaded entity's slug, 0 for null
    loading, gridListLoading, error,
    isFetchingRef,
    allProfiles, allProjects,
    currentIndex, viewMode, layoutView, gridPage,
    totalProfiles, totalProjects,
    peopleFilters, projectFilters,
    debouncedPeopleSearch, debouncedProjectSearch,
    gridReqs,               \* the grid/list requests in flight, in the order issued
    detailReqs,             \* the detail requests in flight, in the order issued
    lastGrid,               \* the grid/list request issued last, and how it ended
    events,                 \* the number of user events so far
    faults,                 \* the number of requests that did not end "ok" so far
    trail,                  \* the last user event, with the mode and page before it
    record,                 \* the record handed to a filter callback, with its kind
    filters,                \* the filters and the search term the callback reads
    decision,               \* what the callback returned: "in", "out", or "unset"
    panel,                  \* what filteredPersonProjects returned
    timers,                 \* the setTimeout handles not yet fired or cleared
    prefetchReqs,           \* the prefetch requests in flight
    availableFilters,       \* which facet options have been loaded
    filtersReq,             \* the request of fetchFilters is in flight
    since,                  \* ticks since a search text / a prefetch dependency changed
    searchParams,           \* the query of the URL: a sequence of <<name, value>> pairs
    loadingProgress,        \* LoadingProgressProvider: progress, isLoading, isCollapsing,
                            \* timeoutRef, with the timeouts set and the fetches using it
    projectCarouselIndex    \* the first of the person's projects the carousel shows

vars ==
    <<path, mounted, person, project, loading, gridListLoading, error, isFetchingRef,
      allProfiles, allProjects, currentIndex, viewMode, layoutView, gridPage,
      totalProfiles, totalProjects, peopleFilters, projectFilters,
      debouncedPeopleSearch, debouncedProjectSearch, gridReqs, detailReqs, lastGrid,
      events, faults, trail, record, filters, decision, panel,
      timers, prefetchReqs, availableFilters, filtersReq, since,
      searchParams, loadingProgress, projectCarouselIndex>>

\* the timers, the prefetches and the facet options: Spec leaves them out (its
\* DebounceFire stands for the debounce timer), DebounceSpec, SearchSpec and
\* PrefetchSpec follow them
background == <<timers, prefetchReqs, availableFilters, filtersReq, since>>

\* the URL's query, the progress bar and the carousel: UrlSpec, LoadingSpec and
\* CarouselSpec follow them
aside == <<searchParams, loadingProgress, projectCarouselIndex>>

\* the variables the component's events leave alone in Spec
harness == <<record, filters, decision, panel, background, aside>>

NoError == "none"
NoRequest == [mode |-> "none", layout |-> "none", page |-> 0, search |-> NoText,
              skills |-> <<>>, facet |-> <<>>, openToWork |-> FALSE, alive |-> FALSE]

\* The component's state as one value: a render's closure reads one such value.
\* fresh names the array and object states that were assigned a new object
\* since the previous render (React compares dependencies by identity).
Cur ==
    [path |-> path, person |-> person, project |-> project, loading |-> loading,
     gridListLoading |-> gridListLoading, error |-> error,
     isFetchingRef |-> isFetchingRef, allProfiles |-> allProfiles,
     allProjects |-> allProjects, currentIndex |-> currentIndex, viewMode |-> viewMode,
     layoutView |-> layoutView, gridPage |-> gridPage, totalProfiles |-> totalProfiles,
     totalProjects |-> totalProjects, peopleFilters |-> peopleFilters,
     projectFilters |-> projectFilters, debouncedPeopleSearch |-> debouncedPeopleSearch,
     debouncedProjectSearch |-> debouncedProjectSearch, gridReqs |-> gridReqs,
     detailReqs |-> detailReqs, lastGrid |-> lastGrid, fresh |-> {},
     timers |-> timers, prefetchReqs |-> prefetchReqs,
     availableFilters |-> availableFilters, filtersReq |-> filtersReq]

\* useState's initial values for a first render at route r
InitialState(r) ==
    [path |-> r, person |-> 0, project |-> 0, loading |-> TRUE,
     gridListLoading |-> FALSE, error |-> NoError, isFetchingRef |-> FALSE,
     allProfiles |-> <<>>, allProjects |-> <<>>, currentIndex |-> -1,
     viewMode |-> r.mode, layoutView |-> "grid", gridPage |-> 0, totalProfiles |-> 0,
     totalProjects |-> 0, peopleFilters |-> DefaultPeopleFilters,
     projectFilters |-> DefaultProjectFilters, debouncedPeopleSearch |-> NoText,
     debouncedProjectSearch |-> NoText, gridReqs |-> <<>>, detailReqs |-> <<>>,
     lastGrid |-> [q |-> NoRequest, status |-> "none"], fresh |-> {},
     timers |-> {}, prefetchReqs |-> <<>>,
     availableFilters |-> [people |-> FALSE, projects |-> FALSE], filtersReq |-> FALSE]

ApplyState(s) ==
    /\ path' = s.path
    /\ person' = s.person
    /\ project' = s.project
    /\ loading' = s.loading
    /\ gridListLoading' = s.gridListLoading
    /\ error' = s.error
    /\ isFetchingRef' = s.isFetchingRef
    /\ allProfiles' = s.allProfiles
    /\ allProjects' = s.allProjects
    /\ currentIndex' = s.currentIndex
    /\ viewMode' = s.viewMode
    /\ layoutView' = s.layoutView
    /\ gridPage' = s.gridPage
    /\ totalProfiles' = s.totalProfiles
    /\ totalProjects' = s.totalProjects
    /\ peopleFilters' = s.peopleFilters
    /\ projectFilters' = s.projectFilters
    /\ debouncedPeopleSearch' = s.debouncedPeopleSearch
    /\ debouncedProjectSearch' = s.debouncedProjectSearch
    /\ gridReqs' = s.gridReqs
    /\ detailReqs' = s.detailReqs
    /\ lastGrid' = s.lastGrid

Apply(s) == ApplyState(s) /\ UNCHANGED harness

\* the component's state with its timers and background requests
ApplyTimed(s) ==
    /\ ApplyState(s)
    /\ timers' = s.timers
    /\ prefetchReqs' = s.prefetchReqs
    /\ availableFilters' = s.availableFilters
    /\ filtersReq' = s.filtersReq
    /\ UNCHANGED <<record, filters, decision, panel, aside>>

StateIs(s) ==
    /\ path = s.path
    /\ person = s.person
    /\ project = s.project
    /\ loading = s.loading
    /\ gridListLoading = s.gridListLoading
    /\ error = s.error
    /\ isFetchingRef = s.isFetchingRef
    /\ allProfiles = s.allProfiles
    /\ allProjects = s.allProjects
    /\ currentIndex = s.currentIndex
    /\ viewMode = s.viewMode
    /\ layoutView = s.layoutView
    /\ gridPage = s.gridPage
    /\ totalProfiles = s.totalProfiles
    /\ totalProjects = s.totalProjects
    /\ peopleFilters = s.peopleFilters
    /\ projectFilters = s.projectFilters
    /\ debouncedPeopleSearch = s.debouncedPeopleSearch
    /\ debouncedProjectSearch = s.debouncedProjectSearch
    /\ gridReqs = s.gridReqs
    /\ detailReqs = s.detailReqs
    /\ lastGrid = s.lastGrid

\* a dependency changed between the renders p and c
Changed(first, p, c, names, freshNames) ==
    \/ first
    \/ \E n \in names : p[n] # c[n]
    \/ c.fresh \cap freshNames # {}

\* ---------------------------------------------------------------- effects
\* Each effect reads the render c (its closure) and adds its updates to a.

\* useEffect(..., [location.pathname])
PathnameEffect(first, p, c, a) ==
    IF first \/ p.path # c.path
    THEN [a EXCEPT !.viewMode = c.path.mode, !.error = NoError, !.person = 0, !.project = 0]
    ELSE a

\* a pending setTimeout: the callback's closure and the ticks left
DebounceTimer(hook, value) ==
    [kind |-> hook, value |-> value, mode |-> "none", index |-> -1, list |-> <<>>,
     left |-> DebounceTicks]

PrefetchTimer(c) ==
    [kind |-> "prefetch", value |-> NoText, mode |-> c.viewMode, index |-> c.currentIndex,
     list |-> IF c.viewMode = "people" THEN c.allProfiles ELSE c.allProjects,
     left |-> PrefetchTicks]

ClearTimers(ts, kind) == {x \in ts : x.kind # kind}

\* useDebounce's effect without the clearTimeout of its cleanup
DebounceEffectKeepsTimers(first, p, c, a) ==
    LET a1 == IF first \/ p.peopleFilters.search # c.peopleFilters.search
              THEN [a EXCEPT !.timers = @ \cup {DebounceTimer("people", c.peopleFilters.search)}]
              ELSE a
    IN IF first \/ p.projectFilters.search # c.projectFilters.search
       THEN [a1 EXCEPT !.timers = @ \cup {DebounceTimer("projects", c.projectFilters.search)}]
       ELSE a1

\* useDebounce's effect without its setTimeout
DebounceEffectSetsNoTimer(first, p, c, a) ==
    LET a1 == IF first \/ p.peopleFilters.search # c.peopleFilters.search
              THEN [a EXCEPT !.timers = ClearTimers(@, "people")]
              ELSE a
    IN IF first \/ p.projectFilters.search # c.projectFilters.search
       THEN [a1 EXCEPT !.timers = ClearTimers(@, "projects")]
       ELSE a1

\* the effects of the two useDebounce hooks: useEffect(..., [value, delay])
DebounceEffect(first, p, c, a) ==
    LET a1 == IF first \/ p.peopleFilters.search # c.peopleFilters.search
              THEN [a EXCEPT !.timers = ClearTimers(@, "people")
                                          \cup {DebounceTimer("people", c.peopleFilters.search)}]
              ELSE a
    IN IF first \/ p.projectFilters.search # c.projectFilters.search
       THEN [a1 EXCEPT !.timers = ClearTimers(@, "projects")
                                    \cup {DebounceTimer("projects", c.projectFilters.search)}]
       ELSE a1

\* Fetch filters once on mount
FiltersEffect(first, p, c, a) == IF first THEN [a EXCEPT !.filtersReq = TRUE] ELSE a

FilterDepsChanged(first, p, c) ==
    \/ first
    \/ c.fresh \cap {"peopleSkills", "peopleIndustries", "projectSkills", "projectSectors"} # {}
    \/ p.peopleFilters.skills # c.peopleFilters.skills
    \/ p.peopleFilters.industries # c.peopleFilters.industries
    \/ p.peopleFilters.openToWork # c.peopleFilters.openToWork
    \/ p.projectFilters.skills # c.projectFilters.skills
    \/ p.projectFilters.sectors # c.projectFilters.sectors
    \/ p.debouncedPeopleSearch # c.debouncedPeopleSearch
    \/ p.debouncedProjectSearch # c.debouncedProjectSearch

\* Reset to first page when filters or search changes
PageResetEffect(first, p, c, a) ==
    IF FilterDepsChanged(first, p, c) THEN [a EXCEPT !.gridPage = 0] ELSE a

\* the request fetchData builds from the render c
GridRequest(c) ==
    [mode |-> c.viewMode, layout |-> c.layoutView,
     page |-> IF c.layoutView = "grid" THEN c.gridPage ELSE 0,
     search |-> IF c.viewMode = "people" THEN c.debouncedPeopleSearch
                ELSE c.debouncedProjectSearch,
     skills |-> IF c.viewMode = "people" THEN c.peopleFilters.skills
                ELSE c.projectFilters.skills,
     facet |-> IF c.viewMode = "people" THEN c.peopleFilters.industries
               ELSE c.projectFilters.sectors,
     openToWork |-> (c.viewMode = "people" /\ c.peopleFilters.openToWork),
     alive |-> TRUE]

\* the cleanup of the fetch effect: isMounted = false in the closure of every
\* earlier run, isFetchingRef.current = false
FetchCleanup(a) ==
    [a EXCEPT !.gridReqs = [i \in 1..Len(a.gridReqs) |-> [a.gridReqs[i] EXCEPT !.alive = FALSE]],
              !.isFetchingRef = FALSE]

\* fetchData up to its await
FetchData(c, a) ==
    IF a.isFetchingRef
    THEN a
    ELSE IF c.layoutView \in {"grid", "list"}
         THEN [a EXCEPT !.isFetchingRef = TRUE,
                        !.gridListLoading = TRUE,
                        !.gridReqs = Append(a.gridReqs, GridRequest(c)),
                        !.lastGrid = [q |-> GridRequest(c), status |-> "pending"]]
         ELSE a

\* Fetch data based on current view
FetchEffect(first, p, c, a) ==
    IF \/ FilterDepsChanged(first, p, c)
       \/ p.gridPage # c.gridPage
       \/ p.viewMode # c.viewMode
       \/ p.layoutView # c.layoutView
    THEN FetchData(c, IF first THEN a ELSE FetchCleanup(a))
    ELSE a

\* the slug effect without the setLayoutView('grid') of its no-slug branch
SlugEffectKeepsLayout(first, p, c, a) ==
    IF first \/ p.path.slug # c.path.slug \/ p.viewMode # c.viewMode
    THEN IF c.path.slug = 0
         THEN [a EXCEPT !.loading = FALSE]
         ELSE [a EXCEPT !.layoutView = "detail",
                        !.loading = TRUE,
                        !.detailReqs = Append(a.detailReqs,
                            [mode |-> c.viewMode, slug |-> c.path.slug,
                             closure |-> IF c.viewMode = "people" THEN c.allProfiles
                                         ELSE c.allProjects])]
    ELSE a

\* the slug effect: useEffect(..., [slug, viewMode])
SlugEffect(first, p, c, a) ==
    IF first \/ p.path.slug # c.path.slug \/ p.viewMode # c.viewMode
    THEN IF c.path.slug = 0
         THEN [a EXCEPT !.layoutView = "grid", !.loading = FALSE]
         ELSE [a EXCEPT !.layoutView = "detail",
                        !.loading = TRUE,
                        !.detailReqs = Append(a.detailReqs,
                            [mode |-> c.viewMode, slug |-> c.path.slug,
                             closure |-> IF c.viewMode = "people" THEN c.allProfiles
                                         ELSE c.allProjects])]
    ELSE a

\* Update currentIndex when allProfiles or allProjects array loads
IndexSyncEffect(first, p, c, a) ==
    IF Changed(first, p, c, {"allProfiles", "allProjects", "person", "project",
                             "viewMode", "layoutView"},
               {"allProfiles", "allProjects", "person", "project"})
       \/ p.path.slug # c.path.slug
    THEN IF c.layoutView = "detail" /\ c.path.slug # 0
         THEN IF c.viewMode = "people" /\ c.person # 0 /\ Len(c.allProfiles) > 0
              THEN IF FindIndex(c.allProfiles, c.person) >= 0
                   THEN [a EXCEPT !.currentIndex = FindIndex(c.allProfiles, c.person)]
                   ELSE a
              ELSE IF c.viewMode = "projects" /\ c.project # 0 /\ Len(c.allProjects) > 0
                   THEN IF FindIndex(c.allProjects, c.project) >= 0
                        THEN [a EXCEPT !.currentIndex = FindIndex(c.allProjects, c.project)]
                        ELSE a
                   ELSE a
         ELSE a
    ELSE a

PrefetchDepsChanged(first, p, c) ==
    Changed(first, p, c, {"currentIndex", "viewMode", "allProfiles", "allProjects", "layoutView"},
            {"allProfiles", "allProjects"})

\* the prefetch effect without its layoutView !== 'detail' return
PrefetchEffectAnyLayout(first, p, c, a) ==
    IF PrefetchDepsChanged(first, p, c)
    THEN IF c.currentIndex < 0
         THEN [a EXCEPT !.timers = ClearTimers(@, "prefetch")]
         ELSE [a EXCEPT !.timers = ClearTimers(@, "prefetch") \cup {PrefetchTimer(c)}]
    ELSE a

\* Prefetch adjacent items: the cleanup clears the timer, the effect sets a new one
PrefetchEffect(first, p, c, a) ==
    IF PrefetchDepsChanged(first, p, c)
    THEN IF c.currentIndex < 0 \/ c.layoutView # "detail"
         THEN [a EXCEPT !.timers = ClearTimers(@, "prefetch")]
         ELSE [a EXCEPT !.timers = ClearTimers(@, "prefetch") \cup {PrefetchTimer(c)}]
    ELSE a

\* one commit: the effects of the render c, in the order the component declares them
Commit(first, p, c) ==
    LET a0 == [c EXCEPT !.fresh = {}]
        a1 == PathnameEffect(first, p, c, a0)
        a2 == DebounceEffect(first, p, c, a1)
        a3 == PageResetEffect(first, p, c, a2)
        a4 == FetchEffect(first, p, c, a3)
        a5 == FiltersEffect(first, p, c, a4)
        a6 == SlugEffect(first, p, c, a5)
        a7 == IndexSyncEffect(first, p, c, a6)
    IN PrefetchEffect(first, p, c, a7)

\* render and commit until no state changes
RECURSIVE Settle(_, _, _)
Settle(first, p, c) ==
    LET n == Commit(first, p, c)
    IN IF n = [c EXCEPT !.fresh = {}] THEN n ELSE Settle(FALSE, c, n)

\* what React does after an event left the state c, the last render being Cur
AfterEvent(c) == Settle(FALSE, Cur, c)


\* ------------------------------------------------------------ derived values
FilteredProfiles(s) ==
    SelectSeq(s.allProfiles, LAMBDA x :
        ProfileIncluded(Profile(x), s.debouncedPeopleSearch, s.peopleFilters))

FilteredProjects(s) ==
    SelectSeq(s.allProjects, LAMBDA x :
        ProjectIncluded(Project(x), s.debouncedProjectSearch, s.projectFilters))

\* the person's projects the detail card shows: the first three that pass
FilteredPersonProjects(s) ==
    IF s.person = 0
    THEN <<>>
    ELSE FilterPersonProjects(
            [i \in 1..Len(PersonProjects(s.person)) |-> Project(PersonProjects(s.person)[i])],
            s.debouncedProjectSearch, s.projectFilters)

ActiveCollection(s) == IF s.viewMode = "people" THEN s.allProfiles ELSE s.allProjects
ActiveFiltered(s) == IF s.viewMode = "people" THEN FilteredProfiles(s) ELSE FilteredProjects(s)
ActiveTotal(s) == IF s.viewMode = "people" THEN s.totalProfiles ELSE s.totalProjects

\* the page count taken for the last page's index
MaxPageNoMinusOne(total) == CeilDiv(total, GridPageSize)

\* Math.ceil(total / 8) - 1
MaxPage(total) == CeilDiv(total, GridPageSize) - 1

CanGoPrevious(s) == s.currentIndex > 0
CanGoNext(s) == s.currentIndex >= 0 /\ s.currentIndex < Len(ActiveCollection(s)) - 1

\* the early returns of the render: nothing but a blank, an error or "Not found"
\* is on the screen, so no control can be clicked
Rendered(s) ==
    /\ ~s.loading
    /\ ~(s.error # NoError /\ s.path.slug # 0)
    /\ ~(s.person = 0 /\ s.project = 0 /\ s.path.slug # 0 /\ s.layoutView = "detail")

\* the grid or the list shows its cards, not the empty state
CardsShown(s) ==
    \/ s.layoutView = "grid" /\ ~(~s.gridListLoading /\ ActiveTotal(s) = 0)
    \/ s.layoutView = "list" /\ ~(~s.gridListLoading /\ Len(ActiveFiltered(s)) = 0)

ShownCards(s) == IF s.layoutView = "grid" THEN ActiveCollection(s) ELSE ActiveFiltered(s)

Navigate(s, mode, slug) == [s EXCEPT !.path = [mode |-> mode, slug |-> slug]]

\* ---------------------------------------------------------------- handlers
\* Each handler maps the rendered state to the state its setters leave.

\* the slug handlePrevious / handleNext navigate to, 0 when they do not navigate
PreviousTarget(s) ==
    IF s.currentIndex > 0
    THEN IF s.currentIndex - 1 < Len(ActiveCollection(s))
         THEN ActiveCollection(s)[s.currentIndex]
         ELSE 0   \* prevProfile is undefined: reading its slug throws
    ELSE 0

NextTarget(s) ==
    IF s.currentIndex < Len(ActiveCollection(s)) - 1
    THEN ActiveCollection(s)[s.currentIndex + 2]
    ELSE 0

HandlePrevious(s) ==
    IF PreviousTarget(s) # 0 THEN Navigate(s, s.viewMode, PreviousTarget(s)) ELSE s

HandleNext(s) ==
    IF NextTarget(s) # 0 THEN Navigate(s, s.viewMode, NextTarget(s)) ELSE s

\* handleTabSwitch without its setCurrentIndex(-1)
HandleTabSwitchKeepsIndex(s, tab) ==
    Navigate([s EXCEPT !.viewMode = tab, !.gridPage = 0], tab, 0)

\* handleTabSwitch without its setGridPage(0)
HandleTabSwitchKeepsPage(s, tab) ==
    Navigate([s EXCEPT !.viewMode = tab, !.currentIndex = -1], tab, 0)

HandleTabSwitch(s, tab) ==
    Navigate([s EXCEPT !.viewMode = tab, !.currentIndex = -1, !.gridPage = 0], tab, 0)

GridToggle(s) == Navigate([s EXCEPT !.layoutView = "grid"], s.viewMode, 0)

\* the detail toggle taking the first item of the collection as loaded
DetailToggleUnfiltered(s) ==
    IF s.path.slug = 0
    THEN IF Len(ActiveCollection(s)) > 0
         THEN Navigate(s, s.viewMode, ActiveCollection(s)[1])
         ELSE s
    ELSE [s EXCEPT !.layoutView = "detail"]

DetailToggle(s) ==
    IF s.path.slug = 0
    THEN IF Len(ActiveFiltered(s)) > 0
         THEN Navigate(s, s.viewMode, ActiveFiltered(s)[1])
         ELSE s
    ELSE [s EXCEPT !.layoutView = "detail"]

ListToggle(s) == [s EXCEPT !.layoutView = "list"]

\* the card click going back to the first page
CardOnClickResetsPage(s, slug) ==
    Navigate([s EXCEPT !.layoutView = "detail", !.gridPage = 0], s.viewMode, slug)

CardOnClick(s, slug) == Navigate([s EXCEPT !.layoutView = "detail"], s.viewMode, slug)

\* Learn More on a project of the person shown
LearnMoreOnClick(s, slug) == Navigate([s EXCEPT !.viewMode = "projects"], "projects", slug)

\* a participant's name on the project shown
ParticipantOnClick(s, slug) == Navigate([s EXCEPT !.viewMode = "people"], "people", slug)

PagePrevOnClick(s) == [s EXCEPT !.gridPage = Max(0, s.gridPage - 1)]
PageNextOnClick(s) ==
    [s EXCEPT !.gridPage = Min(MaxPage(ActiveTotal(s)), s.gridPage + 1)]
PagePrevDisabled(s) == s.gridPage = 0
PageNextDisabled(s) == s.gridPage >= MaxPage(ActiveTotal(s))
PageControlsShown(s) == s.layoutView = "grid" /\ CeilDiv(ActiveTotal(s), GridPageSize) > 1

ArrowLeft(s) ==
    IF s.layoutView = "grid"
    THEN IF s.gridPage > 0 THEN [s EXCEPT !.gridPage = s.gridPage - 1] ELSE s
    ELSE HandlePrevious(s)

ArrowRight(s) ==
    IF s.layoutView = "grid"
    THEN IF s.gridPage < CeilDiv(Len(ActiveFiltered(s)), GridPageSize) - 1
         THEN [s EXCEPT !.gridPage = s.gridPage + 1]
         ELSE s
    ELSE HandleNext(s)

SearchOnChange(s, text) ==
    IF s.viewMode = "people"
    THEN [s EXCEPT !.peopleFilters.search = text]
    ELSE [s EXCEPT !.projectFilters.search = text]

PeopleSkillChecked(s, skill) ==
    [s EXCEPT !.peopleFilters.skills = ToggleIn(s.peopleFilters.skills, skill),
              !.fresh = {"peopleSkills"}]

PeopleIndustryChecked(s, industry) ==
    [s EXCEPT !.peopleFilters.industries = ToggleIn(s.peopleFilters.industries, industry),
              !.fresh = {"peopleIndustries"}]

ProjectSkillChecked(s, skill) ==
    [s EXCEPT !.projectFilters.skills = ToggleIn(s.projectFilters.skills, skill),
              !.fresh = {"projectSkills"}]

ProjectSectorChecked(s, sector) ==
    [s EXCEPT !.projectFilters.sectors = ToggleIn(s.projectFilters.sectors, sector),
              !.fresh = {"projectSectors"}]

ClearOnClick(s) ==
    IF s.viewMode = "people"
    THEN [s EXCEPT !.peopleFilters = DefaultPeopleFilters,
                   !.fresh = {"peopleSkills", "peopleIndustries"}]
    ELSE [s EXCEPT !.projectFilters = DefaultProjectFilters,
                   !.fresh = {"projectSkills", "projectSectors"}]


\* ------------------------------------------------------ request completions
RemoveAt(seq, i) == [j \in 1..(Len(seq) - 1) |-> IF j < i THEN seq[j] ELSE seq[j + 1]]

\* response.pagination?.total || response.total || response.data.length
ResponseTotal(resp) == IF resp.total # 0 THEN resp.total ELSE Len(resp.data)

\* what follows the await of fetchData for the request r: a response with
\* success (outcome "ok"), or a response without success or a rejection ("error")
\* a continuation whose catch empties the collection
GridContinuationClearsOnError(s, r, outcome) ==
    LET resp == ServerListPage(r)
        got == IF r.mode = "people"
               THEN [s EXCEPT !.allProfiles = IF outcome = "ok" THEN resp.data ELSE <<>>,
                              !.totalProfiles = IF outcome = "ok" THEN ResponseTotal(resp) ELSE 0,
                              !.fresh = {"allProfiles"}]
               ELSE [s EXCEPT !.allProjects = IF outcome = "ok" THEN resp.data ELSE <<>>,
                              !.totalProjects = IF outcome = "ok" THEN ResponseTotal(resp) ELSE 0,
                              !.fresh = {"allProjects"}]
    IN [got EXCEPT !.gridListLoading = FALSE]

GridContinuation(s, r, outcome) ==
    LET resp == ServerListPage(r)
        got == IF outcome = "ok"
               THEN IF r.mode = "people"
                    THEN [s EXCEPT !.allProfiles = resp.data,
                                   !.totalProfiles = ResponseTotal(resp),
                                   !.fresh = {"allProfiles"}]
                    ELSE [s EXCEPT !.allProjects = resp.data,
                                   !.totalProjects = ResponseTotal(resp),
                                   !.fresh = {"allProjects"}]
               ELSE s
    IN [got EXCEPT !.gridListLoading = FALSE]

\* the list a detail request gets with getAll({limit: 100}); under "absent" the
\* list the server returns does not hold the entity asked for
DetailList(r, outcome) ==
    IF outcome = "absent"
    THEN SelectSeq(ServerFullList(r.mode), LAMBDA x : x # r.slug)
    ELSE ServerFullList(r.mode)

\* the failure with a fall back to the grid
DetailFailedRevertsLayout(s, r) ==
    [s EXCEPT !.error = IF r.mode = "people" THEN "Person not found" ELSE "Project not found",
              !.layoutView = "grid"]

\* the else branch and the catch block: setError('Person not found')
DetailFailed(s, r) ==
    [s EXCEPT !.error = IF r.mode = "people" THEN "Person not found" ELSE "Project not found"]

\* what follows the await of fetchPersonAndList / fetchProjectAndList.
\* outcome: "ok", "absent" (both succeed, the list lacks the slug), "listFailed"
\* (allData.success is false), "notFound" (the entity's success is false),
\* "error" (getBySlug rejects and with it Promise.all), "listRejected" (getBySlug
\* resolves with success, getAll rejects and with it Promise.all)
DetailContinuation(s, r, outcome) ==
    LET listOk == outcome \in {"ok", "absent"}
        list == IF listOk THEN DetailList(r, outcome) ELSE r.closure
        index == FindIndex(list, r.slug)
        shown == IF r.mode = "people"
                 THEN [s EXCEPT !.person = r.slug, !.project = 0,
                                !.allProfiles = IF listOk THEN list ELSE @,
                                !.totalProfiles = IF listOk THEN Len(list) ELSE @,
                                !.currentIndex = IF index >= 0 THEN index ELSE -1,
                                !.error = NoError,
                                !.fresh = {"person"} \cup (IF listOk THEN {"allProfiles"} ELSE {})]
                 ELSE [s EXCEPT !.project = r.slug, !.person = 0,
                                !.allProjects = IF listOk THEN list ELSE @,
                                !.totalProjects = IF listOk THEN Len(list) ELSE @,
                                !.currentIndex = IF index >= 0 THEN index ELSE -1,
                                !.error = NoError,
                                !.fresh = {"project"} \cup (IF listOk THEN {"allProjects"} ELSE {})]
        failed == DetailFailed(s, r)
        got == IF outcome \in {"ok", "absent", "listFailed"} THEN shown ELSE failed
    IN [got EXCEPT !.loading = FALSE]

GridOutcomes == {"ok", "error"}
DetailOutcomes == {"ok", "absent", "listFailed", "notFound", "error", "listRejected"}

\* ----------------------------------------------------------------- inputs
SearchTexts == {NoText, ToLowerCase(Ada)}
ProjectSearchTexts == {NoText, ToLowerCase(App)}
SkillOptions == {Go}
IndustryOptions == {Fin}
SectorOptions == {Edu}
InitialRoutes ==
    {[mode |-> "people", slug |-> 0], [mode |-> "projects", slug |-> 0],
     [mode |-> "people", slug |-> 3], [mode |-> "projects", slug |-> 2]}

\* ---------------------------------------------------------------- actions
Push(name) == [op |-> name, mode |-> viewMode, page |-> gridPage]

\* a user event whose handler leaves the state c
UserEvent(name, c) ==
    /\ mounted
    /\ events < MaxEvents
    /\ c # Cur
    /\ LET n == AfterEvent(c)
       IN /\ Len(n.gridReqs) + Len(n.detailReqs) <= MaxInFlight
          /\ Apply(n)
    /\ events' = events + 1
    /\ trail' = Push(name)
    /\ UNCHANGED <<mounted, faults>>

PagePrevious ==
    /\ Rendered(Cur) /\ PageControlsShown(Cur) /\ ~PagePrevDisabled(Cur)
    /\ UserEvent("pagePrevious", PagePrevOnClick(Cur))

PageNext ==
    /\ Rendered(Cur) /\ PageControlsShown(Cur) /\ ~PageNextDisabled(Cur)
    /\ UserEvent("pageNext", PageNextOnClick(Cur))

KeyArrowLeft == UserEvent("arrowLeft", ArrowLeft(Cur))

KeyArrowRight == UserEvent("arrowRight", ArrowRight(Cur))

ClickPrevious ==
    /\ Rendered(Cur) /\ layoutView = "detail" /\ Len(ActiveCollection(Cur)) > 1
    /\ CanGoPrevious(Cur)
    /\ UserEvent("previous", HandlePrevious(Cur))

ClickNext ==
    /\ Rendered(Cur) /\ layoutView = "detail" /\ Len(ActiveCollection(Cur)) > 1
    /\ CanGoNext(Cur)
    /\ UserEvent("next", HandleNext(Cur))

TabSwitch ==
    /\ Rendered(Cur)
    /\ \E tab \in {"people", "projects"} : UserEvent("tab", HandleTabSwitch(Cur, tab))

ClickGridToggle == Rendered(Cur) /\ UserEvent("gridToggle", GridToggle(Cur))

ClickDetailToggle == Rendered(Cur) /\ UserEvent("detailToggle", DetailToggle(Cur))

ClickListToggle == Rendered(Cur) /\ UserEvent("listToggle", ListToggle(Cur))

ClickCard ==
    /\ Rendered(Cur) /\ CardsShown(Cur) /\ Len(ShownCards(Cur)) > 0
    /\ \E i \in {1, Len(ShownCards(Cur))} :
          UserEvent("card", CardOnClick(Cur, ShownCards(Cur)[i]))

ClickLearnMore ==
    /\ Rendered(Cur) /\ layoutView = "detail" /\ viewMode = "people" /\ person # 0
    /\ \E i \in 1..Min(3, Len(FilteredPersonProjects(Cur))) :
          UserEvent("learnMore", LearnMoreOnClick(Cur, FilteredPersonProjects(Cur)[i].slug))

ClickParticipant ==
    /\ Rendered(Cur) /\ layoutView = "detail" /\ viewMode = "projects" /\ project # 0
    /\ \E i \in 1..Len(ProjectParticipants(project)) :
          UserEvent("participant", ParticipantOnClick(Cur, ProjectParticipants(project)[i]))

TypeSearch ==
    /\ Rendered(Cur) /\ layoutView = "grid"
    /\ \E text \in (IF viewMode = "people" THEN SearchTexts ELSE ProjectSearchTexts) :
          /\ text # (IF viewMode = "people" THEN peopleFilters.search ELSE projectFilters.search)
          /\ UserEvent("search", SearchOnChange(Cur, text))

CheckPeopleSkill ==
    /\ Rendered(Cur) /\ viewMode = "people"
    /\ \E skill \in SkillOptions : UserEvent("skill", PeopleSkillChecked(Cur, skill))

CheckPeopleIndustry ==
    /\ Rendered(Cur) /\ viewMode = "people"
    /\ \E industry \in IndustryOptions :
          UserEvent("industry", PeopleIndustryChecked(Cur, industry))

CheckProjectSkill ==
    /\ Rendered(Cur) /\ viewMode = "projects"
    /\ \E skill \in SkillOptions : UserEvent("skill", ProjectSkillChecked(Cur, skill))

CheckProjectSector ==
    /\ Rendered(Cur) /\ viewMode = "projects"
    /\ \E sector \in SectorOptions : UserEvent("sector", ProjectSectorChecked(Cur, sector))

\* the Clear Search button of the empty state
ClickClear ==
    /\ Rendered(Cur) /\ layoutView \in {"grid", "list"} /\ ~CardsShown(Cur)
    /\ UserEvent("clear", ClearOnClick(Cur))

\* useDebounce's timer fires 500 ms after the search text last changed
DebounceFire ==
    /\ mounted
    /\ \/ /\ debouncedPeopleSearch # peopleFilters.search
          /\ LET n == AfterEvent([Cur EXCEPT !.debouncedPeopleSearch = peopleFilters.search])
             IN Len(n.gridReqs) + Len(n.detailReqs) <= MaxInFlight /\ Apply(n)
       \/ /\ debouncedProjectSearch # projectFilters.search
          /\ LET n == AfterEvent([Cur EXCEPT !.debouncedProjectSearch = projectFilters.search])
             IN Len(n.gridReqs) + Len(n.detailReqs) <= MaxInFlight /\ Apply(n)
    /\ UNCHANGED <<mounted, events, faults, trail>>

\* the latest grid/list request is the last in flight while its status is pending
IsLatestGrid(i) == lastGrid.status = "pending" /\ i = Len(gridReqs)

\* the i-th grid/list request in flight resolves.  The finally block clears the
\* ref also when the component is gone; React drops the setters of an unmounted
\* component.
GridResolve ==
    \E i \in 1..Len(gridReqs), outcome \in GridOutcomes :
       LET r == gridReqs[i]
           fault == IF outcome = "ok" THEN 0 ELSE 1
           s == [Cur EXCEPT !.gridReqs = RemoveAt(gridReqs, i),
                            !.isFetchingRef = FALSE,
                            !.lastGrid.status =
                                IF IsLatestGrid(i)
                                THEN (IF outcome = "ok" THEN "ok" ELSE "failed")
                                ELSE @]
       IN /\ IF mounted THEN Apply(AfterEvent(GridContinuation(s, r, outcome))) ELSE Apply(s)
          /\ faults + fault <= MaxFaults
          /\ faults' = faults + fault
          /\ UNCHANGED <<mounted, events, trail>>

DetailResolve ==
    \E i \in 1..Len(detailReqs), outcome \in DetailOutcomes :
       LET r == detailReqs[i]
           fault == IF outcome = "ok" THEN 0 ELSE 1
           s == [Cur EXCEPT !.detailReqs = RemoveAt(detailReqs, i)]
       IN /\ IF mounted THEN Apply(AfterEvent(DetailContinuation(s, r, outcome))) ELSE Apply(s)
          /\ faults + fault <= MaxFaults
          /\ faults' = faults + fault
          /\ UNCHANGED <<mounted, events, trail>>

\* the route leaves the browse surface: every effect's cleanup runs
Unmount ==
    /\ mounted
    /\ events < MaxEvents
    /\ mounted' = FALSE
    /\ Apply(FetchCleanup(Cur))
    /\ events' = events + 1
    /\ trail' = Push("unmount")
    /\ UNCHANGED faults

\* no filter callback is under test while the component runs
NoRecord == [kind |-> "none"]

\* no timer and no background request is followed; the facet options are there
BackgroundLeftOut ==
    /\ timers = {}
    /\ prefetchReqs = <<>>
    /\ availableFilters = [people |-> TRUE, projects |-> TRUE]
    /\ filtersReq = FALSE
    /\ since = [people |-> 0, projects |-> 0, deps |-> 0]

\* new URLSearchParams(): no parameter
NoParams == <<>>

\* useState(0), useState(false), useState(false), useRef(null) (0 for null), no
\* timeout set, and no fetch between its startLoading and its completeLoading
ProviderInitial ==
    [progress |-> 0, isLoading |-> FALSE, isCollapsing |-> FALSE, timeoutRef |-> 0,
     timeouts |-> {}, callers |-> <<>>]

\* the URL has no query; the progress bar and the carousel are not followed
AsideLeftOut ==
    /\ searchParams = NoParams
    /\ loadingProgress = ProviderInitial
    /\ projectCarouselIndex = 0

Init ==
    \E r \in InitialRoutes :
       /\ StateIs(Settle(TRUE, InitialState(r), InitialState(r)))
       /\ AsideLeftOut
       /\ record = NoRecord
       /\ filters = DefaultPeopleFilters
       /\ decision = "unset"
       /\ panel = <<>>
       /\ BackgroundLeftOut
       /\ mounted = TRUE
       /\ events = 0
       /\ faults = 0
       /\ trail = [op |-> "mount", mode |-> r.mode, page |-> 0]

Next ==
    \/ PagePrevious
    \/ PageNext
    \/ KeyArrowLeft
    \/ KeyArrowRight
    \/ ClickPrevious
    \/ ClickNext
    \/ TabSwitch
    \/ ClickGridToggle
    \/ ClickDetailToggle
    \/ ClickListToggle
    \/ ClickCard
    \/ ClickLearnMore
    \/ ClickParticipant
    \/ TypeSearch
    \/ CheckPeopleSkill
    \/ CheckPeopleIndustry
    \/ CheckProjectSkill
    \/ CheckProjectSector
    \/ ClickClear
    \/ DebounceFire
    \/ GridResolve
    \/ DetailResolve
    \/ Unmount

Spec == Init /\ [][Next]_vars

\* ------------------------------------------- the component with its timers
\* Three specifications follow what Spec leaves out, each under the user events
\* that matter to it: DebounceSpec the setTimeout handles of the two useDebounce
\* hooks and the request of fetchFilters on the grid routes, SearchSpec the same
\* handles in the component that stays mounted, with fairness, PrefetchSpec the
\* timer and the requests of the prefetch effect on the detail routes.

\* the ticks counted since each search text and the prefetch dependencies changed
SinceNext(ticks) ==
    since' =
       [people |-> IF peopleFilters'.search # peopleFilters.search THEN 0
                   ELSE Min(DebounceTicks, since.people + ticks),
        projects |-> IF projectFilters'.search # projectFilters.search THEN 0
                     ELSE Min(DebounceTicks, since.projects + ticks),
        deps |-> IF <<currentIndex', viewMode', allProfiles', allProjects', layoutView'>>
                    # <<currentIndex, viewMode, allProfiles, allProjects, layoutView>>
                 THEN 0
                 ELSE Min(DebounceTicks, since.deps + ticks)]

\* the mount on one of the routes; elapsed: half a second later, when the two
\* debounce timers of the first render have fired (they set the value the hooks
\* already hold)
TimedInit(routes, elapsed) ==
    \E r \in routes :
       LET s == Settle(TRUE, InitialState(r), InitialState(r))
           ticks == IF elapsed THEN DebounceTicks ELSE 0
       IN /\ StateIs(s)
          /\ timers = IF elapsed THEN ClearTimers(ClearTimers(s.timers, "people"), "projects")
                      ELSE s.timers
          /\ prefetchReqs = s.prefetchReqs
          /\ availableFilters = s.availableFilters
          /\ filtersReq = s.filtersReq
          /\ since = [people |-> ticks, projects |-> ticks, deps |-> ticks]
          /\ AsideLeftOut
          /\ record = NoRecord
          /\ filters = DefaultPeopleFilters
          /\ decision = "unset"
          /\ panel = <<>>
          /\ mounted = TRUE
          /\ events = 0
          /\ faults = 0
          /\ trail = [op |-> "mount", mode |-> r.mode, page |-> 0]

\* a user event whose handler leaves the state c, timers followed
TimedEvent(name, c) ==
    /\ mounted
    /\ events < MaxEvents
    /\ c # Cur
    /\ \E n \in {AfterEvent(c)} :
          /\ Len(n.gridReqs) + Len(n.detailReqs) <= MaxInFlight
          /\ ApplyTimed(n)
    /\ SinceNext(0)
    /\ events' = events + 1
    /\ trail' = Push(name)
    /\ UNCHANGED <<mounted, faults>>

TimedTypeSearch ==
    /\ Rendered(Cur) /\ layoutView = "grid"
    /\ \E text \in (IF viewMode = "people" THEN SearchTexts ELSE ProjectSearchTexts) :
          /\ text # (IF viewMode = "people" THEN peopleFilters.search ELSE projectFilters.search)
          /\ TimedEvent("search", SearchOnChange(Cur, text))

TimedTabSwitch ==
    /\ Rendered(Cur)
    /\ \E tab \in {"people", "projects"} : TimedEvent("tab", HandleTabSwitch(Cur, tab))

TimedKeyArrow ==
    \/ TimedEvent("arrowLeft", ArrowLeft(Cur))
    \/ TimedEvent("arrowRight", ArrowRight(Cur))

TimedClickListToggle == Rendered(Cur) /\ TimedEvent("listToggle", ListToggle(Cur))

TimedClickCard ==
    /\ Rendered(Cur) /\ CardsShown(Cur) /\ Len(ShownCards(Cur)) > 0
    /\ \E i \in {1, Len(ShownCards(Cur))} :
          TimedEvent("card", CardOnClick(Cur, ShownCards(Cur)[i]))

\* the cleanups at unmount: of the fetch effect, of the useDebounce effects and
\* of the prefetch effect
TimedUnmount ==
    /\ mounted
    /\ events < MaxEvents
    /\ mounted' = FALSE
    /\ ApplyTimed([FetchCleanup(Cur) EXCEPT !.timers = {}])
    /\ SinceNext(0)
    /\ events' = events + 1
    /\ trail' = Push("unmount")
    /\ UNCHANGED faults

TimedGridResolve ==
    \E i \in 1..Len(gridReqs), outcome \in GridOutcomes :
       LET r == gridReqs[i]
           fault == IF outcome = "ok" THEN 0 ELSE 1
           s == [Cur EXCEPT !.gridReqs = RemoveAt(gridReqs, i),
                            !.isFetchingRef = FALSE,
                            !.lastGrid.status =
                                IF IsLatestGrid(i)
                                THEN (IF outcome = "ok" THEN "ok" ELSE "failed")
                                ELSE @]
       IN /\ \E n \in {IF mounted THEN AfterEvent(GridContinuation(s, r, outcome)) ELSE s} : ApplyTimed(n)
          /\ SinceNext(0)
          /\ faults + fault <= MaxFaults
          /\ faults' = faults + fault
          /\ UNCHANGED <<mounted, events, trail>>

TimedDetailResolve ==
    \E i \in 1..Len(detailReqs), outcome \in DetailOutcomes :
       LET r == detailReqs[i]
           fault == IF outcome = "ok" THEN 0 ELSE 1
           s == [Cur EXCEPT !.detailReqs = RemoveAt(detailReqs, i)]
       IN /\ \E n \in {IF mounted THEN AfterEvent(DetailContinuation(s, r, outcome)) ELSE s} : ApplyTimed(n)
          /\ SinceNext(0)
          /\ faults + fault <= MaxFaults
          /\ faults' = faults + fault
          /\ UNCHANGED <<mounted, events, trail>>

\* what follows the await of fetchFilters.  outcome: "ok", "peopleUnsuccessful"
\* (peopleFiltersData.success is false), "error" (Promise.all rejects)
FiltersContinuation(s, outcome) ==
    CASE outcome = "ok" -> [s EXCEPT !.availableFilters = [people |-> TRUE, projects |-> TRUE]]
      [] outcome = "peopleUnsuccessful" -> [s EXCEPT !.availableFilters.projects = TRUE]
      [] OTHER -> s

FiltersResolve ==
    /\ filtersReq
    /\ \E outcome \in {"ok", "peopleUnsuccessful", "error"} :
          LET fault == IF outcome = "error" THEN 1 ELSE 0
              s == [Cur EXCEPT !.filtersReq = FALSE]
          IN /\ \E n \in {IF mounted THEN AfterEvent(FiltersContinuation(s, outcome)) ELSE s} : ApplyTimed(n)
             /\ SinceNext(0)
             /\ faults + fault <= MaxFaults
             /\ faults' = faults + fault
             /\ UNCHANGED <<mounted, events, trail>>

\* a quarter of a second passes
Tick ==
    /\ \E x \in timers : x.left > 0
    /\ timers' = {[x EXCEPT !.left = Max(0, @ - 1)] : x \in timers}
    /\ ApplyState(Cur)
    /\ SinceNext(1)
    /\ UNCHANGED <<mounted, events, faults, trail, record, filters, decision, panel,
                   prefetchReqs, availableFilters, filtersReq, aside>>

\* setDebouncedValue(value) in the timer's callback
DebounceTimerFire ==
    \E x \in timers :
       /\ x.kind \in {"people", "projects"}
       /\ x.left = 0
       /\ LET c == [Cur EXCEPT !.timers = @ \ {x},
                                !.debouncedPeopleSearch =
                                    IF x.kind = "people" THEN x.value ELSE @,
                                !.debouncedProjectSearch =
                                    IF x.kind = "projects" THEN x.value ELSE @]
          IN \E p \in {Cur}, v \in {c} :
                \E n \in {IF mounted THEN Settle(FALSE, p, v) ELSE [p EXCEPT !.timers = @ \ {x}]} :
                   ApplyTimed(n)
       /\ SinceNext(0)
       /\ UNCHANGED <<mounted, events, faults, trail>>

\* prefetchAdjacent with the values of the render that set the timer: the next
\* item, then the previous one, each when there is one
PrefetchTargets(x) ==
    (IF x.index < Len(x.list) - 1
     THEN <<[mode |-> x.mode, slug |-> x.list[x.index + 2]]>> ELSE <<>>)
    \o (IF x.index > 0 /\ x.index <= Len(x.list)
        THEN <<[mode |-> x.mode, slug |-> x.list[x.index]]>> ELSE <<>>)

PrefetchTimerFire ==
    \E x \in timers :
       /\ x.kind = "prefetch"
       /\ x.left = 0
       /\ Len(prefetchReqs) + Len(PrefetchTargets(x)) <= MaxPrefetch
       /\ ApplyTimed([Cur EXCEPT !.timers = @ \ {x},
                                 !.prefetchReqs = @ \o PrefetchTargets(x)])
       /\ SinceNext(0)
       /\ UNCHANGED <<mounted, events, faults, trail>>

\* a prefetch that would show what it fetched
PrefetchContinuationShowsEntity(s, r, outcome) ==
    IF outcome = "ok"
    THEN IF r.mode = "people" THEN [s EXCEPT !.person = r.slug, !.fresh = {"person"}]
         ELSE [s EXCEPT !.project = r.slug, !.fresh = {"project"}]
    ELSE s

\* getBySlug(slug).catch(() => {}): the result is dropped, the rejection swallowed
PrefetchContinuation(s, r, outcome) == s

PrefetchResolve ==
    \E i \in 1..Len(prefetchReqs), outcome \in {"ok", "error"} :
       LET r == prefetchReqs[i]
           s == [Cur EXCEPT !.prefetchReqs = RemoveAt(prefetchReqs, i)]
       IN /\ \E n \in {IF mounted THEN AfterEvent(PrefetchContinuation(s, r, outcome)) ELSE s} : ApplyTimed(n)
          /\ SinceNext(0)
          /\ UNCHANGED <<mounted, events, faults, trail>>

DebounceNext ==
    \/ TimedTypeSearch
    \/ TimedTabSwitch
    \/ TimedClickCard
    \/ TimedUnmount
    \/ TimedGridResolve
    \/ FiltersResolve
    \/ Tick
    \/ DebounceTimerFire

\* the grid routes
DebounceSpec ==
    /\ TimedInit({r \in InitialRoutes : r.slug = 0}, FALSE)
    /\ [][DebounceNext]_vars

SearchNext ==
    \/ TimedTypeSearch
    \/ TimedTabSwitch
    \/ TimedClickCard
    \/ TimedGridResolve
    \/ Tick
    \/ DebounceTimerFire

\* the grid routes of the component that stays mounted: time passes, and a
\* timer that is due fires (the event loop runs the callback of a setTimeout
\* whose delay has elapsed)
SearchSpec ==
    /\ TimedInit({r \in InitialRoutes : r.slug = 0}, FALSE)
    /\ [][SearchNext]_vars
    /\ WF_vars(Tick)
    /\ WF_vars(DebounceTimerFire)

PrefetchNext ==
    \/ TimedKeyArrow
    \/ TimedClickListToggle
    \/ TimedGridResolve
    \/ TimedDetailResolve
    \/ Tick
    \/ PrefetchTimerFire
    \/ PrefetchResolve

\* the detail routes, from half a second after the mount
PrefetchSpec ==
    /\ TimedInit({r \in InitialRoutes : r.slug # 0}, TRUE)
    /\ [][PrefetchNext]_vars

\* ------------------------------------------- the filter callbacks on their own
\* The callbacks of filteredProfiles and filteredProjects are pure: they read one
\* record, the debounced search term and the filter object.  FilterSpec draws
\* these from bounded sets and applies the callback once.
SkillNames == {Go, Rust, Python}

\* the arrays of at most n distinct elements of S
Arrays(S, n) ==
    {a \in UNION {[1..k -> S] : k \in 0..n} : \A i, j \in 1..Len(a) : a[i] = a[j] => i = j}

ProfileRecords ==
    [kind : {"profile"}, name : {Ada, Bo}, bio : {NoText, Ego},
     skills : Arrays(SkillNames, MaxFacet), industry_expertise : {<<>>, <<Fin>>},
     open_to_work : BOOLEAN]

ProjectRecords ==
    [kind : {"project"}, title : {App, Bo}, summary : {NoText, Ego},
     short_description : {NoText, Ads},
     skills : Arrays(SkillNames, MaxFacet), sectors : {<<>>, <<Edu>>}]

FilterSearchTexts == {NoText, <<"G", "O">>, <<"a", "D">>, <<" ">>}

PeopleFilterValues ==
    [search : FilterSearchTexts, skills : Arrays(SkillNames, MaxFacet),
     industries : {<<>>, <<Fin>>}, openToWork : BOOLEAN]

ProjectFilterValues ==
    [search : FilterSearchTexts, skills : Arrays(SkillNames, MaxFacet),
     sectors : {<<>>, <<Edu>>}]

\* the callback's return value for record r under filters f, the debounced term
\* having caught up with f.search
Include(r, f) ==
    IF r.kind = "profile" THEN ProfileIncluded(r, f.search, f) ELSE ProjectIncluded(r, f.search, f)

\* allProjects.filter(callback)
FilterProjects(list, f) == SelectSeq(list, LAMBDA r : ProjectIncluded(r, f.search, f))

\* [...prev.skills, skill]: the skill checkbox being checked
WithSkill(f, skill) == [f EXCEPT !.skills = Append(@, skill)]

\* the component is not running while a callback is applied on its own
ComponentIdle ==
    /\ StateIs(InitialState([mode |-> "people", slug |-> 0]))
    /\ mounted = FALSE
    /\ events = 0
    /\ faults = 0
    /\ trail = [op |-> "none", mode |-> "people", page |-> 0]
    /\ BackgroundLeftOut

ComponentUnchanged ==
    UNCHANGED <<path, mounted, person, project, loading, gridListLoading, error,
                isFetchingRef, allProfiles, allProjects, currentIndex, viewMode,
                layoutView, gridPage, totalProfiles, totalProjects, peopleFilters,
                projectFilters, debouncedPeopleSearch, debouncedProjectSearch, gridReqs,
                detailReqs, lastGrid, events, faults, trail, background>>

FilterInit ==
    /\ ComponentIdle
    /\ AsideLeftOut
    /\ \/ record \in ProfileRecords /\ filters \in PeopleFilterValues
       \/ record \in ProjectRecords /\ filters \in ProjectFilterValues
    /\ decision = "unset"
    /\ panel = <<>>

ApplyFilter ==
    /\ decision = "unset"
    /\ decision' = IF Include(record, filters) THEN "in" ELSE "out"
    /\ ComponentUnchanged
    /\ UNCHANGED <<record, filters, panel, aside>>

FilterNext == ApplyFilter

FilterSpec == FilterInit /\ [][FilterNext]_vars

\* ------------------------------------------- filteredPersonProjects on its own
\* CrossFilterSpec draws a person's embedded projects and the project filters
\* from bounded sets and computes filteredPersonProjects once.
EmbeddedProject(title, summary, description, skills, sectors) ==
    [kind |-> "project", title |-> title, summary |-> summary,
     short_description |-> description, skills |-> skills, sectors |-> sectors]

EmbeddedPool ==
    {EmbeddedProject(App, NoText, NoText, <<Go>>, <<Edu>>),
     EmbeddedProject(Bo, NoText, NoText, <<Rust, Go>>, <<>>),
     EmbeddedProject(Bo, Ego, NoText, <<Python>>, <<Edu>>),
     EmbeddedProject(App, NoText, Ads, <<>>, <<>>),
     EmbeddedProject(<<"A", " ", "b">>, NoText, NoText, <<>>, <<Edu>>)}

\* a person with five projects
FiveProjects ==
    <<EmbeddedProject(App, NoText, NoText, <<Go>>, <<Edu>>),
      EmbeddedProject(Bo, NoText, NoText, <<Rust, Go>>, <<>>),
      EmbeddedProject(Bo, Ego, NoText, <<Python>>, <<Edu>>),
      EmbeddedProject(App, NoText, Ads, <<>>, <<>>),
      EmbeddedProject(<<"A", " ", "b">>, NoText, NoText, <<>>, <<Edu>>)>>

EmbeddedLists == Arrays(EmbeddedPool, MaxEmbedded) \cup {FiveProjects}

CrossFilterInit ==
    /\ ComponentIdle
    /\ AsideLeftOut
    /\ \E projects \in EmbeddedLists : record = [kind |-> "person", projects |-> projects]
    /\ filters \in ProjectFilterValues
    /\ decision = "unset"
    /\ panel = <<>>

ApplyCrossFilter ==
    /\ decision = "unset"
    /\ decision' = "filtered"
    /\ panel' = FilterPersonProjects(record.projects, filters.search, filters)
    /\ ComponentUnchanged
    /\ UNCHANGED <<record, filters, aside>>

CrossFilterNext == ApplyCrossFilter

CrossFilterSpec == CrossFilterInit /\ [][CrossFilterNext]_vars

\* =================================================================== claims
UserStep(names) == events' = events + 1 /\ trail'.op \in names
NoRequestPending == gridReqs = <<>> /\ detailReqs = <<>>
DisplayedSlug == IF viewMode = "people" THEN person ELSE project

\* C1: on the grid/list surface, once every request has resolved and the request
\* issued last succeeded, the collection and the total shown are the response to
\* that request: no older response has overwritten it.
C1_LatestResponseShown ==
    (/\ mounted
     /\ layoutView \in {"grid", "list"}
     /\ NoRequestPending
     /\ lastGrid.status = "ok"
     /\ lastGrid.q.mode = viewMode)
    => /\ ActiveCollection(Cur) = ServerListPage(lastGrid.q).data
       /\ ActiveTotal(Cur) = ResponseTotal(ServerListPage(lastGrid.q))

\* C2: in detail layout, whenever no detail request is pending and no error is
\* set, the loaded entity has the slug and the entity type of the route.
C2_DetailEntityIsRoute ==
    (mounted /\ layoutView = "detail" /\ detailReqs = <<>> /\ error = NoError)
    => /\ path.mode = "people" => (person = path.slug /\ project = 0)
       /\ path.mode = "projects" => (project = path.slug /\ person = 0)

\* C3: the resolution of a grid/list request whose effect was torn down (alive is
\* false) changes none of allProfiles, allProjects, totalProfiles, totalProjects.
C3_TornDownFetchIgnored ==
    [][\A i \in 1..Len(gridReqs) :
          (~gridReqs[i].alive /\ gridReqs' = RemoveAt(gridReqs, i))
          => UNCHANGED <<allProfiles, allProjects, totalProfiles, totalProjects>>]_vars

\* C4: at most one grid/list request and at most one detail request is in flight.
C4_OnePrimaryFetchPerSurface == Len(gridReqs) <= 1 /\ Len(detailReqs) <= 1

\* C5: in detail layout handleNext navigates exactly when 0 <= currentIndex < N-1
\* and handlePrevious exactly when currentIndex > 0, to the slug of the item at
\* currentIndex+1, resp. currentIndex-1.
C5_NextPreviousGuards ==
    (mounted /\ layoutView = "detail")
    => LET n == Len(ActiveCollection(Cur))
       IN /\ (NextTarget(Cur) # 0) <=> (0 <= currentIndex /\ currentIndex < n - 1)
          /\ (PreviousTarget(Cur) # 0) <=> (currentIndex > 0)
          /\ NextTarget(Cur) # 0 => NextTarget(Cur) = ActiveCollection(Cur)[currentIndex + 2]
          /\ PreviousTarget(Cur) # 0 => PreviousTarget(Cur) = ActiveCollection(Cur)[currentIndex]

\* C6: in detail layout, once the entity is loaded and nothing is pending, the
\* active collection is a response to the unfiltered getAll({limit: 100}), never
\* a filtered or paged result.
C6_DetailCollectionIsFullList ==
    (/\ mounted
     /\ layoutView = "detail"
     /\ NoRequestPending
     /\ ~loading
     /\ error = NoError
     /\ DisplayedSlug # 0)
    => ActiveCollection(Cur) \in
          {DetailList([mode |-> viewMode, slug |-> DisplayedSlug], o) : o \in {"ok", "absent"}}

\* C7: a step that, in detail layout, replaces the active collection by one that
\* does not hold the displayed entity's slug leaves currentIndex as it was.
C7_IndexKeptWhenSlugAbsent ==
    [][(/\ mounted
        /\ layoutView = "detail" /\ layoutView' = "detail"
        /\ viewMode' = viewMode
        /\ DisplayedSlug' # 0
        /\ ActiveCollection(Cur)' # ActiveCollection(Cur)
        /\ ~InArray(ActiveCollection(Cur)', DisplayedSlug'))
       => currentIndex' = currentIndex]_vars

\* the page p is one of the pages of a collection of `total` items, 8 to a page:
\* 0 <= p <= max(0, ceil(total / 8) - 1)
PageWithin(p, total) == p >= 0 /\ (p = 0 \/ p * 8 < total)

\* C8 as stated: the page buttons keep gridPage within 0 .. max(0, ceil(T/8) - 1),
\* T = 17 gives max page 1, and for T = 0 neither button acts.
C8_AsStated ==
    [][UserStep({"pageNext", "pagePrevious"})
       => /\ PageWithin(gridPage', ActiveTotal(Cur))
          /\ ActiveTotal(Cur) = 17 => gridPage' <= 1
          /\ ActiveTotal(Cur) # 0]_vars

\* C8 amended: the page buttons keep gridPage within 0 .. max(0, ceil(T/8) - 1);
\* T = 17 gives max page 2 (page 3 is not reachable), and for T = 0 neither
\* button acts.
C8_PageButtonsStayWithin ==
    [][UserStep({"pageNext", "pagePrevious"})
       => /\ PageWithin(gridPage', ActiveTotal(Cur))
          /\ ActiveTotal(Cur) = 17 => gridPage' <= 2
          /\ ActiveTotal(Cur) # 0]_vars

C8_Witness ==
    /\ trail.op = "pageNext"
    /\ layoutView = "grid" /\ viewMode = "people"
    /\ totalProfiles = 17 /\ gridPage = 2

\* an active filter changes in the step
FilterChangeStep ==
    \/ peopleFilters'.skills # peopleFilters.skills
    \/ peopleFilters'.industries # peopleFilters.industries
    \/ peopleFilters'.openToWork # peopleFilters.openToWork
    \/ projectFilters'.skills # projectFilters.skills
    \/ projectFilters'.sectors # projectFilters.sectors
    \/ debouncedPeopleSearch' # debouncedPeopleSearch
    \/ debouncedProjectSearch' # debouncedProjectSearch
    \/ UserStep({"clear"})

\* C9: a step in which an active filter changes leaves the page at 0, and every
\* list request it issues asks for page 0.
C9_FilterChangeResetsPage ==
    [][FilterChangeStep
       => /\ gridPage' = 0
          /\ \A i \in (Len(gridReqs) + 1)..Len(gridReqs') : gridReqs'[i].page = 0]_vars

\* C10 as stated: after paging to p > 0 in one mode and switching to the other
\* mode, the switch back leaves the page at p.
C10_AsStated ==
    (/\ mounted /\ Rendered(Cur)
     /\ trail.op = "tab" /\ trail.page > 0 /\ trail.mode # viewMode)
    => AfterEvent(HandleTabSwitch(Cur, trail.mode)).gridPage = trail.page

\* C10 amended: there is one page index, shared by the two modes, and every tab
\* switch resets it to 0: after paging to p > 0 in one mode, the switch to the
\* other mode and the switch back each leave the page at 0.
C10_TabSwitchResetsSharedPage ==
    [][UserStep({"tab"}) => gridPage' = 0]_vars

C10_Witness ==
    /\ trail.op = "tab" /\ trail.page > 0 /\ trail.mode # viewMode
    /\ gridPage = 0

\* C11: a tab switch, to either tab and from any state whose tabs are on the
\* screen, leaves currentIndex = -1 and gridPage = 0 and leaves peopleFilters
\* and projectFilters as they were.
C11_TabSwitchFrame ==
    []((mounted /\ Rendered(Cur))
      => \A tab \in {"people", "projects"} :
            LET n == AfterEvent(HandleTabSwitch(Cur, tab))
            IN /\ n.currentIndex = -1
               /\ n.gridPage = 0
               /\ n.viewMode = tab
               /\ n.peopleFilters = peopleFilters
               /\ n.projectFilters = projectFilters)

C11_Witness ==
    /\ trail.op = "tab" /\ trail.mode = "people" /\ viewMode = "projects"
    /\ peopleFilters.skills # <<>>
    /\ currentIndex = -1 /\ gridPage = 0

\* the layout and the mode the route asks for
RouteDerived(r, layout, mode) ==
    /\ layout = (IF r.slug # 0 THEN "detail" ELSE "grid")
    /\ mode = r.mode

\* C12: at the first render and at every change of the route, layoutView becomes
\* detail when the route has a slug and grid when it has none, and viewMode
\* becomes projects for a /projects path and people otherwise.
C12_RouteDerivesLayoutAndMode ==
    /\ (events = 0 /\ trail.op = "mount") => RouteDerived(path, layoutView, viewMode)
    /\ [][(mounted /\ path' # path) => RouteDerived(path', layoutView', viewMode')]_vars

C12_Witness ==
    /\ trail.op = "card" /\ path.mode = "projects" /\ path.slug # 0
    /\ layoutView = "detail" /\ viewMode = "projects"

\* the detail request of the current route is still pending
RouteFetchPending ==
    /\ detailReqs # <<>>
    /\ detailReqs[Len(detailReqs)].mode = path.mode
    /\ detailReqs[Len(detailReqs)].slug = path.slug

\* C13: from a change of the route until the detail request of the new route
\* completes, no entity loaded for an earlier route is held: person and project
\* are null or the entity of the current route.
C13_NoEarlierEntityWhilePending ==
    (mounted /\ path.slug # 0 /\ RouteFetchPending)
    => /\ person = 0 \/ (path.mode = "people" /\ person = path.slug)
       /\ project = 0 \/ (path.mode = "projects" /\ project = path.slug)

\* C14: when a pending detail request ends with the entity not found or with a
\* rejection, the layout stays what it was (detail stays detail), an error is
\* set, loading ends, and on a route with a slug the error is what is rendered.
C14_FailureKeepsDetail ==
    mounted
    => \A i \in 1..Len(detailReqs), outcome \in {"notFound", "error"} :
          LET s == [Cur EXCEPT !.detailReqs = RemoveAt(detailReqs, i)]
              n == AfterEvent(DetailContinuation(s, detailReqs[i], outcome))
          IN /\ n.layoutView = layoutView
             /\ n.path = path
             /\ n.error # NoError
             /\ ~n.loading
             /\ n.path.slug # 0 => ~Rendered(n)

C14_Witness ==
    /\ mounted /\ layoutView = "detail" /\ path.slug # 0
    /\ detailReqs = <<>> /\ faults = 1
    /\ error # NoError /\ ~loading /\ person = 0 /\ project = 0

\* C15: in detail layout with no detail request pending, an entity of the active
\* mode is loaded or the error is set.
C15_DetailHasEntityOrError ==
    (mounted /\ layoutView = "detail" /\ detailReqs = <<>>)
    => \/ viewMode = "people" /\ person # 0
       \/ viewMode = "projects" /\ project # 0
       \/ error # NoError

\* the item passes the filters of the state s
PassesFilters(s, slug) ==
    IF s.viewMode = "people"
    THEN ProfileIncluded(Profile(slug), s.debouncedPeopleSearch, s.peopleFilters)
    ELSE ProjectIncluded(Project(slug), s.debouncedProjectSearch, s.projectFilters)

\* C16: with no slug in the route, the detail toggle navigates to the first item
\* of the filtered collection of the active mode (an item that passes the
\* filters) when there is one, and changes nothing at all when there is none.
C16_DetailToggleWithoutSlug ==
    (mounted /\ Rendered(Cur) /\ path.slug = 0)
    => LET f == ActiveFiltered(Cur)
           n == AfterEvent(DetailToggle(Cur))
       IN IF Len(f) > 0
          THEN /\ n.path = [mode |-> viewMode, slug |-> f[1]]
               /\ PassesFilters(Cur, f[1])
               /\ n.layoutView = "detail"
               /\ n.viewMode = viewMode
               /\ n.gridPage = gridPage
               /\ n.peopleFilters = peopleFilters /\ n.projectFilters = projectFilters
          ELSE n = Cur

C16_Witness ==
    /\ trail.op = "detailToggle" /\ path.mode = "people"
    /\ peopleFilters.skills = <<Go>>
    /\ path.slug = 2 /\ layoutView = "detail"

\* C17: a click on a card of the grid or the list leads to the detail route of
\* exactly that card's slug and leaves gridPage and both filter sets as they were; the
\* grid toggle, from detail or list, also leaves them as they are and asks the
\* server for that page with those filters.
C17_CardClickKeepsPageAndFilters ==
    []((mounted /\ Rendered(Cur))
      => /\ CardsShown(Cur) =>
               \A i \in 1..Len(ShownCards(Cur)) :
                  LET slug == ShownCards(Cur)[i]
                      n == AfterEvent(CardOnClick(Cur, slug))
                  IN /\ n.path = [mode |-> viewMode, slug |-> slug]
                     /\ n.layoutView = "detail"
                     /\ n.gridPage = gridPage
                     /\ n.peopleFilters = peopleFilters /\ n.projectFilters = projectFilters
         /\ layoutView \in {"detail", "list"} =>
               LET g == AfterEvent(GridToggle(Cur))
               IN /\ g.layoutView = "grid" /\ g.path.slug = 0
                  /\ g.gridPage = gridPage
                  /\ g.peopleFilters = peopleFilters /\ g.projectFilters = projectFilters
                  /\ g.lastGrid.status = "pending"
                  /\ g.lastGrid.q = GridRequest(g))

C17_Witness ==
    /\ trail.op = "card" /\ trail.page > 0 /\ gridPage = trail.page
    /\ layoutView = "detail" /\ path.slug # 0 /\ ~loading

\* the selection filters of record kind k hold when nothing is selected or typed
AllDefault(k, f) ==
    IF k = "profile" THEN f = DefaultPeopleFilters ELSE f = DefaultProjectFilters

\* C18: under filters whose components are all default (empty search, no skill,
\* no industry or sector selected, openToWork false) the filter callback keeps
\* every record, profile or project.
C18_DefaultFiltersIncludeAll ==
    (decision # "unset" /\ AllDefault(record.kind, filters)) => decision = "in"

C18_Witness ==
    /\ decision = "in" /\ AllDefault(record.kind, filters)
    /\ record.kind = "profile" /\ record.skills = <<>> /\ ~record.open_to_work

\* the skills a checkbox can still add to the selection
Unselected(f) == {s \in SkillNames : ~InArray(f.skills, s)}

\* C19 as stated: for every filters value, a record the callback keeps is still
\* kept after one more skill is added to the selected skills.
C19_AsStated ==
    decision = "in" => \A s \in Unselected(filters) : Include(record, WithSkill(filters, s))

\* C19: when at least one skill is already selected, a record the callback keeps
\* is still kept after one more skill is added to the selected skills.  (With no
\* skill selected the skills filter is off, and selecting the first skill turns
\* it on and drops the records without that skill.)
C19_AddingSkillToSelectionKeeps ==
    (decision = "in" /\ filters.skills # <<>>)
    => \A s \in Unselected(filters) : Include(record, WithSkill(filters, s))

C19_Witness ==
    /\ decision = "in" /\ filters.skills # <<>>
    /\ \E s \in Unselected(filters) :
          ~InArray(record.skills, s) /\ Include(record, WithSkill(filters, s))

\* the elements of an array
Elements(arr) == {arr[i] : i \in 1..Len(arr)}

\* the facet passes: nothing selected, or a selected value is one of the record's
FacetPasses(own, selected) == selected = <<>> \/ Elements(own) \cap Elements(selected) # {}

SecondFacetPasses(r, f) ==
    IF r.kind = "profile" THEN FacetPasses(r.industry_expertise, f.industries)
    ELSE FacetPasses(r.sectors, f.sectors)

SearchAndFlagOff(r, f) == f.search = NoText /\ (r.kind = "profile" => ~f.openToWork)

GoOnly == [search |-> NoText, skills |-> <<Go>>, sectors |-> <<>>]
ScenarioProject(skills) ==
    [kind |-> "project", title |-> Bo, summary |-> NoText, short_description |-> NoText,
     skills |-> skills, sectors |-> <<>>]
ScenarioProjects == <<ScenarioProject(<<Go>>), ScenarioProject(<<Rust, Go>>), ScenarioProject(<<Python>>)>>

\* C20: a record the callback keeps shares a value with every non-empty facet
\* selection (skills, industries or sectors), and with no search term and no
\* open-to-work flag the callback keeps a record exactly when it shares at least
\* one value with each non-empty selection: sharing one is enough, it need not
\* have them all.  Projects with skills [Go], [Rust, Go], [Python] filtered by
\* the selection {Go} give the first two.
C20_FacetPassesOnIntersection ==
    /\ decision # "unset" =>
          LET pass == FacetPasses(record.skills, filters.skills) /\ SecondFacetPasses(record, filters)
          IN /\ decision = "in" => pass
             /\ SearchAndFlagOff(record, filters) => (decision = "in" <=> pass)
    /\ FilterProjects(ScenarioProjects, GoOnly) = SubSeq(ScenarioProjects, 1, 2)

C20_Witness ==
    /\ decision = "in" /\ Len(filters.skills) = 2
    /\ Cardinality(Elements(record.skills) \cap Elements(filters.skills)) = 1
    /\ record.kind = "project" /\ filters.sectors = <<Edu>>

\* two characters are the same letter, whatever their case
CasePairs ==
    {{"A", "a"}, {"B", "b"}, {"D", "d"}, {"E", "e"}, {"F", "f"}, {"G", "g"}, {"O", "o"},
     {"P", "p"}, {"R", "r"}}
SameLetter(a, b) == a = b \/ {a, b} \in CasePairs

\* text occurs in field, case ignored
ContainsIgnoringCase(field, text) ==
    \E i \in 0..(Len(field) - Len(text)) :
       \A j \in 1..Len(text) : SameLetter(field[i + j], text[j])

\* the fields the search looks at, by kind of record
SearchFields(r) ==
    IF r.kind = "profile" THEN <<r.name, r.bio>> \o r.skills
    ELSE <<r.title, r.summary, r.short_description>> \o r.skills

SearchPasses(r, text) ==
    \E i \in 1..Len(SearchFields(r)) : ContainsIgnoringCase(SearchFields(r)[i], text)

FacetsAndFlagOff(r, f) ==
    /\ f.skills = <<>>
    /\ IF r.kind = "profile" THEN f.industries = <<>> /\ ~f.openToWork ELSE f.sectors = <<>>

\* C21: under a non-empty search text a record the callback keeps has the text,
\* case ignored, inside at least one of its search fields (name, bio or a skill
\* for a profile; title, summary, short description or a skill for a project),
\* and with no facet selected and openToWork off the callback keeps a record
\* exactly when a field has it.
C21_SearchPassesOnSubstring ==
    (decision # "unset" /\ filters.search # NoText)
    => /\ decision = "in" => SearchPasses(record, filters.search)
       /\ FacetsAndFlagOff(record, filters)
             => (decision = "in" <=> SearchPasses(record, filters.search))

C21_Witness ==
    /\ decision = "in" /\ filters.search = <<"a", "D">> /\ FacetsAndFlagOff(record, filters)
    /\ record.kind = "project" /\ record.title = Bo /\ record.summary = NoText
    /\ record.short_description = Ads

\* C22: the callback keeps a profile exactly when the profile passes the search,
\* the skills facet, the industries facet and the open-to-work test, all four;
\* so with openToWork set every kept profile has its open_to_work flag true.
C22_ProfileIncludedIsConjunction ==
    (decision # "unset" /\ record.kind = "profile")
    => /\ decision = "in"
          <=> /\ filters.search = NoText \/ SearchPasses(record, filters.search)
              /\ FacetPasses(record.skills, filters.skills)
              /\ FacetPasses(record.industry_expertise, filters.industries)
              /\ filters.openToWork => record.open_to_work
       /\ (decision = "in" /\ filters.openToWork) => record.open_to_work

C22_Witness ==
    /\ decision = "in" /\ record.kind = "profile"
    /\ filters.openToWork /\ record.open_to_work
    /\ filters.search # NoText /\ filters.skills # <<>> /\ filters.industries # <<>>

\* C23: with no project search term and no project skill or sector selected,
\* filteredPersonProjects returns the person's embedded projects as they are:
\* the same elements in the same order, all five of a person who has five.
C23_NoFilterReturnsEmbeddedList ==
    (decision = "filtered" /\ filters = DefaultProjectFilters) => panel = record.projects

C23_Witness ==
    /\ decision = "filtered" /\ filters = DefaultProjectFilters
    /\ record.projects = FiveProjects /\ Len(panel) = 5

\* C24: filteredPersonProjects keeps an embedded project exactly when the
\* callback of filteredProjects includes it under the same search term, skills
\* and sectors.
C24_CrossFilterIsProjectPredicate ==
    decision = "filtered"
    => \A i \in 1..Len(record.projects) :
          InArray(panel, record.projects[i])
          <=> ProjectIncluded(record.projects[i], filters.search, filters)

\* ---------------------------------------------------------------- C25, C26
DebounceHooks == {"people", "projects"}
SearchInput(hook) == IF hook = "people" THEN peopleFilters.search ELSE projectFilters.search
Debounced(hook) ==
    IF hook = "people" THEN debouncedPeopleSearch ELSE debouncedProjectSearch
SinceTyped(hook) == IF hook = "people" THEN since.people ELSE since.projects

\* a step that changes a debounced value sets it to the input of its hook, which
\* has been that input for the whole delay, while the component is mounted
DebouncedStep ==
    /\ debouncedPeopleSearch' # debouncedPeopleSearch
          => /\ mounted
             /\ debouncedPeopleSearch' = peopleFilters.search
             /\ peopleFilters'.search = peopleFilters.search
             /\ since.people >= DebounceTicks
    /\ debouncedProjectSearch' # debouncedProjectSearch
          => /\ mounted
             /\ debouncedProjectSearch' = projectFilters.search
             /\ projectFilters'.search = projectFilters.search
             /\ since.projects >= DebounceTicks

\* the only update a hook has pending is the one of its current input, and it is
\* not due before the input is DebounceTicks old; none is pending after unmount
PendingUpdates ==
    /\ \A x \in timers :
          x.kind \in DebounceHooks
             => /\ x.value = SearchInput(x.kind)
                /\ x.left + SinceTyped(x.kind) >= DebounceTicks
    /\ \A x, y \in timers : x.kind = y.kind => x = y
    /\ ~mounted => timers = {}

\* C25: a debounced search value changes only to the input value that has been
\* current for the full delay: every new input cancels the update that was
\* pending, so a superseded text is never propagated, and nothing is pending
\* after the component is unmounted.
C25_DebouncedFollowsSettledInput == [][DebouncedStep]_vars /\ []PendingUpdates

\* the text typed half a second ago has arrived in the debounced value
C25_Witness ==
    /\ mounted
    /\ events > 0
    /\ \E hook \in DebounceHooks :
          /\ SearchInput(hook) # NoText
          /\ Debounced(hook) = SearchInput(hook)
          /\ SinceTyped(hook) >= DebounceTicks

\* the inputs stop changing (the user events are bounded); from some moment on
\* the debounced values of the mounted component equal them
DebouncedCatchesUp ==
    <>[](mounted => /\ debouncedPeopleSearch = peopleFilters.search
                    /\ debouncedProjectSearch = projectFilters.search)

\* the list request the step leaves pending carries the term text of the mode
RequestCarries(mode, text) ==
    /\ lastGrid'.status = "pending"
    /\ lastGrid'.q.mode = mode
    /\ lastGrid'.q.search = text
    /\ Len(gridReqs') > 0
    /\ gridReqs'[Len(gridReqs')] = lastGrid'.q

\* C26 as stated: every update of a debounced value issues a list request that
\* carries it
C26_AsStated ==
    [][/\ debouncedPeopleSearch' # debouncedPeopleSearch
             => RequestCarries("people", debouncedPeopleSearch')
       /\ debouncedProjectSearch' # debouncedProjectSearch
             => RequestCarries("projects", debouncedProjectSearch')]_vars

\* C26: when the search input stops changing in the mounted component, the
\* debounced value eventually equals it (timers that are due fire); the update
\* issues a list request carrying the final term when the grid or the list of
\* the input's entity mode is the surface shown.
C26_DebouncedCatchesUpAndRequests ==
    /\ DebouncedCatchesUp
    /\ [][/\ (/\ debouncedPeopleSearch' # debouncedPeopleSearch
              /\ viewMode' = "people" /\ layoutView' \in {"grid", "list"})
                => RequestCarries("people", debouncedPeopleSearch')
          /\ (/\ debouncedProjectSearch' # debouncedProjectSearch
              /\ viewMode' = "projects" /\ layoutView' \in {"grid", "list"})
                => RequestCarries("projects", debouncedProjectSearch')]_vars

\* the grid asked for the text that was typed
C26_Witness ==
    /\ mounted
    /\ layoutView = "grid"
    /\ \E hook \in DebounceHooks :
          /\ viewMode = hook
          /\ SearchInput(hook) # NoText
          /\ Debounced(hook) = SearchInput(hook)
          /\ lastGrid.status = "pending"
          /\ lastGrid.q.mode = hook
          /\ lastGrid.q.search = SearchInput(hook)

\* ---------------------------------------------------------------- C27, C28
\* the prefetch requests a step issues
NewPrefetches ==
    {prefetchReqs'[i] : i \in (Len(prefetchReqs) + 1)..Len(prefetchReqs')}

\* the items right after and right before position index of list, each when
\* there is one
Neighbours(mode, list, index) ==
    {[mode |-> mode, slug |-> list[i]] : i \in {index, index + 2} \cap 1..Len(list)}

\* a step that issues prefetch requests
PrefetchIssued == Len(prefetchReqs') > Len(prefetchReqs)

viewState ==
    <<path, person, project, loading, gridListLoading, error, allProfiles, allProjects,
      currentIndex, viewMode, layoutView, gridPage, totalProfiles, totalProjects,
      peopleFilters, projectFilters, debouncedPeopleSearch, debouncedProjectSearch>>
primaryFetches == <<isFetchingRef, gridReqs, detailReqs, lastGrid>>

\* with prefetches in flight the detail surface still issues its primary
\* requests: the one of the next entity (when that is another route), the one
\* of the list
PrimaryFetchNotBlocked ==
    (mounted /\ prefetchReqs # <<>> /\ Rendered(Cur) /\ layoutView = "detail")
       => /\ (CanGoNext(Cur) /\ NextTarget(Cur) # path.slug)
               => Len(AfterEvent(HandleNext(Cur)).detailReqs) = Len(detailReqs) + 1
          /\ Len(AfterEvent(ListToggle(Cur)).gridReqs) = Len(gridReqs) + 1

\* C28: the answer to a prefetch, success or failure, changes no view state;
\* a prefetch neither reads nor sets the guard of the primary fetch: issuing and
\* answering one leaves the guard and the primary requests as they are, and the
\* primary requests are issued while prefetches are in flight.
C28_PrefetchLeavesViewAlone ==
    /\ [][/\ Len(prefetchReqs') < Len(prefetchReqs)
                => UNCHANGED <<viewState, primaryFetches, timers, mounted>>
          /\ PrefetchIssued => UNCHANGED <<viewState, primaryFetches>>]_vars
    /\ []PrimaryFetchNotBlocked

\* one of two prefetches has been answered, the other is in flight together
\* with the primary request of the entity navigated to
C28_Witness ==
    /\ mounted
    /\ layoutView = "detail"
    /\ Len(prefetchReqs) = 1
    /\ detailReqs # <<>>
    /\ currentIndex > 0
    /\ currentIndex < Len(ActiveCollection(Cur)) - 1

\* ---------------------------------------------------------------- C29, C30
\* the "Sorry! Can't find ..." block of the grid or of the list is on the screen
NoResultsShown == layoutView \in {"grid", "list"} /\ Rendered(Cur) /\ ~CardsShown(Cur)

\* C29: a failed grid/list fetch is shown as a failure to load, never as the
\* no-results state: when the list request issued last has failed and nothing
\* is in flight, the grid or list does not show its no-results block.
C29_FailureIsNotNoResults ==
    (/\ mounted
     /\ lastGrid.status = "failed"
     /\ lastGrid.q.mode = viewMode
     /\ lastGrid.q.layout = layoutView
     /\ NoRequestPending)
       => ~NoResultsShown

\* a step in which a list request or the request of fetchFilters fails
FetchFailed == faults' = faults + 1

\* C30: when a list fetch or the fetch of the filter options fails, the
\* collections, the totals, the available facet options, the page, the active
\* filters, the entity mode and the layout keep their values, and the failure
\* stays inside the handler: the component stays mounted on its route and no
\* error is set.
C30_FailedFetchKeepsState ==
    [][FetchFailed
          => UNCHANGED <<allProfiles, allProjects, totalProfiles, totalProjects,
                         availableFilters, gridPage, peopleFilters, projectFilters,
                         viewMode, layoutView, mounted, path, error>>]_vars

\* the list request of the typed text has failed, the page loaded before is kept
C30_Witness ==
    /\ mounted
    /\ faults = 1
    /\ lastGrid.status = "failed"
    /\ lastGrid.q.search # NoText
    /\ Len(ActiveCollection(Cur)) > 0
    /\ ActiveTotal(Cur) > 0

\* ---------------------------------------------------------------- C31, C32
\* the keydown handler of the last render advances / takes back the page
ArrowRightAdvances == ArrowRight(Cur).gridPage = gridPage + 1
ArrowLeftTakesBack == ArrowLeft(Cur).gridPage = gridPage - 1

\* C31: in the grid layout ArrowRight advances the page by one exactly when the
\* page is below ceil(total / 8) - 1 of the active mode, the condition under
\* which the next-page button is enabled, and ArrowLeft takes it back by one
\* exactly when the page is above 0.
C31_ArrowKeysPageLikeButtons ==
    (mounted /\ layoutView = "grid")
       => /\ ArrowRightAdvances <=> gridPage < MaxPage(ActiveTotal(Cur))
          /\ ArrowRightAdvances <=> ~PageNextDisabled(Cur)
          /\ ArrowLeftTakesBack <=> gridPage > 0

\* a step taken by the keydown listener
ArrowKeyStep == events' = events + 1 /\ trail'.op \in {"arrowLeft", "arrowRight"}

\* C32: in the list layout the arrow keys never call the Previous / Next
\* navigation: an arrow key pressed in the list layout leaves the route as it is
\* and leaves the list layout on; an arrow key changes the route only in the
\* detail layout.
C32_ListArrowsLeaveRouteAlone ==
    [][ArrowKeyStep
          => /\ layoutView = "list" => (path' = path /\ layoutView' = "list")
             /\ path' # path => layoutView = "detail"]_vars

\* ------------------------------------------------------- the URL's query, C33
\* UrlSpec: the browse surface opened at /people or /projects with a query in
\* the URL, then filter changes, tab switches and list responses.  The routes
\* /people and /projects render PersonDetailPage, which has no useSearchParams;
\* the parameter names and their parsing are those of PeoplePage, the one
\* component of the repository that reads and writes them.
TrueText == <<"t", "r", "u", "e">>

\* URLSearchParams.getAll(name)
GetAll(params, name) ==
    LET named == SelectSeq(params, LAMBDA p : p[1] = name)
    IN [i \in 1..Len(named) |-> named[i][2]]

\* PeoplePage's initial filters: get('search') || '', getAll('skills'),
\* getAll('industries'), get('openToWork') === 'true'
FiltersFromParams(params) ==
    [search |-> IF GetAll(params, "search") = <<>> THEN NoText ELSE GetAll(params, "search")[1],
     skills |-> GetAll(params, "skills"),
     industries |-> GetAll(params, "industries"),
     openToWork |-> /\ GetAll(params, "openToWork") # <<>>
                    /\ GetAll(params, "openToWork")[1] = TrueText]

\* PeoplePage's URL effect: set search when it is not empty, set openToWork when
\* it is true, append every skill, append every industry
ParamsFromFilters(f) ==
    (IF f.search # NoText THEN <<<<"search", f.search>>>> ELSE <<>>)
    \o (IF f.openToWork THEN <<<<"openToWork", TrueText>>>> ELSE <<>>)
    \o [i \in 1..Len(f.skills) |-> <<"skills", f.skills[i]>>]
    \o [i \in 1..Len(f.industries) |-> <<"industries", f.industries[i]>>]

\* the queries the surface is opened with
InitialQueries ==
    {NoParams,
     <<<<"search", ToLowerCase(Ada)>>>>,
     <<<<"skills", Go>>, <<"skills", Rust>>>>,
     <<<<"openToWork", TrueText>>, <<"industries", Fin>>>>}

UrlInit ==
    \E r \in {x \in InitialRoutes : x.slug = 0}, query \in InitialQueries :
       /\ StateIs(Settle(TRUE, InitialState(r), InitialState(r)))
       /\ searchParams = query
       /\ loadingProgress = ProviderInitial
       /\ projectCarouselIndex = 0
       /\ record = NoRecord
       /\ filters = DefaultPeopleFilters
       /\ decision = "unset"
       /\ panel = <<>>
       /\ BackgroundLeftOut
       /\ mounted = TRUE
       /\ events = 0
       /\ faults = 0
       /\ trail = [op |-> "mount", mode |-> r.mode, page |-> 0]

\* handleTabSwitch: navigate('/people') or navigate('/projects') gives a URL
\* without a query
UrlTabSwitch ==
    /\ mounted
    /\ events < MaxEvents
    /\ Rendered(Cur)
    /\ \E tab \in {"people", "projects"} :
          /\ HandleTabSwitch(Cur, tab) # Cur \/ searchParams # NoParams
          /\ \E n \in {AfterEvent(HandleTabSwitch(Cur, tab))} :
                /\ Len(n.gridReqs) + Len(n.detailReqs) <= MaxInFlight
                /\ ApplyState(n)
    /\ searchParams' = NoParams
    /\ events' = events + 1
    /\ trail' = Push("tab")
    /\ UNCHANGED <<mounted, faults, record, filters, decision, panel, background,
                   loadingProgress, projectCarouselIndex>>

\* the filter handlers set state only: they leave the URL as it is
UrlNext ==
    \/ TypeSearch
    \/ CheckPeopleSkill
    \/ CheckPeopleIndustry
    \/ ClickClear
    \/ DebounceFire
    \/ GridResolve
    \/ UrlTabSwitch

UrlSpec == UrlInit /\ [][UrlNext]_vars

\* the event handled last changed the people filters
PeopleFilterChanged == trail.op \in {"search", "skill", "industry", "clear"}

\* C33: on the browse surface the active filters are initialised from the query
\* parameters of the URL (search, repeated skills, repeated industries,
\* openToWork), and after every filter change outside the detail layout the
\* query parameters are the serialization of the active filters, so that
\* parsing the URL again gives the same filters.
C33_FiltersRoundTripThroughUrl ==
    (mounted /\ viewMode = "people" /\ layoutView # "detail")
       => /\ events = 0 => peopleFilters = FiltersFromParams(searchParams)
          /\ PeopleFilterChanged
                => /\ searchParams = ParamsFromFilters(peopleFilters)
                   /\ FiltersFromParams(searchParams) = peopleFilters

\* ---------------------------------------------------------------------- C34
\* the grid/list request of the parameters now rendered is in flight
CurrentFetchPending ==
    /\ mounted
    /\ layoutView \in {"grid", "list"}
    /\ lastGrid.status = "pending"
    /\ lastGrid.q = GridRequest(Cur)
    /\ InArray(gridReqs, lastGrid.q)

\* C34: while the primary grid/list fetch of the current parameters is pending,
\* gridListLoading is true and the no-results block is not shown, also when an
\* earlier, superseded fetch resolves or fails in the meantime.
C34_PendingFetchShowsLoading ==
    CurrentFetchPending => (gridListLoading /\ ~NoResultsShown)

\* ---------------------------------------------------------------------- C35
\* position i (0-based) is inside the active collection
InsideCollection(i) == 0 <= i /\ i < Len(ActiveCollection(Cur))

\* C35: the neighbour a Previous or Next action reads exists: where
\* currentIndex > 0 the item at currentIndex - 1 is inside the active
\* collection, and where currentIndex < N - 1 the item at currentIndex + 1 is,
\* also after the collection was replaced by a shorter one while the index was
\* kept.
C35_NeighbourReadExists ==
    mounted
       => /\ currentIndex > 0 => InsideCollection(currentIndex - 1)
          /\ currentIndex < Len(ActiveCollection(Cur)) - 1 => InsideCollection(currentIndex + 1)

\* ---------------------------------------------------------------------- C36
\* the detail layout is on only with a slug in the route
DetailHasSlug(s) == s.layoutView = "detail" => s.path.slug # 0

\* C36: layoutView = detail implies that the route has a slug: no settled state
\* after card clicks, layout toggles, tab switches, Previous / Next steps and
\* route changes (here also a change of the route to /people or /projects from
\* outside the component, as the browser's back button makes it) is in the
\* detail layout without a slug.
C36_DetailLayoutHasSlug ==
    mounted
       => /\ DetailHasSlug(Cur)
          /\ \A mode \in {"people", "projects"} :
                DetailHasSlug(AfterEvent(Navigate(Cur, mode, 0)))

\* a tab switch has left the detail layout while the request of the card
\* clicked before it is still in flight
C36_Witness ==
    /\ mounted
    /\ events = 2
    /\ trail.op = "tab"
    /\ detailReqs # <<>>
    /\ layoutView = "grid"
    /\ path.slug = 0

\* ---------------------------------------------------------------------- C37
\* the outcomes in which getBySlug resolves with success
EntityResolved == {"ok", "absent", "listFailed", "listRejected"}

\* the state the continuation of the i-th detail request leaves
AfterDetail(i, outcome) ==
    DetailContinuation([Cur EXCEPT !.detailReqs = RemoveAt(detailReqs, i)],
                       detailReqs[i], outcome)

\* C37: a detail load reports not-found only when the lookup of the entity does
\* not resolve: whenever getBySlug of the route's slug succeeds, the entity is
\* displayed and no error is set, also when the full-list fetch made with it
\* fails.
C37_FoundEntityIsShown ==
    mounted
       => \A i \in 1..Len(detailReqs), outcome \in EntityResolved :
             (detailReqs[i].mode = path.mode /\ detailReqs[i].slug = path.slug)
                => /\ AfterDetail(i, outcome).error = NoError
                   /\ IF path.mode = "people"
                      THEN AfterDetail(i, outcome).person = path.slug
                      ELSE AfterDetail(i, outcome).project = path.slug

\* --------------------------------------------- LoadingProgressProvider, C38
\* LoadingSpec: the provider with the fetches of PersonDetailPage as its
\* callers.  A fetch calls startLoading and setLoadingProgress before its await
\* and setLoadingProgress and completeLoading after it; up to MaxLoads fetches
\* overlap.  Time passes in steps of 100 ms.  The provider wraps the routes of
\* the app and stays mounted with them.
MaxLoads == 3
CollapseDelay == 1
ResetDelay == 5

\* clearTimeout(timeoutRef.current); timeoutRef.current = null
ClearTimeoutRef(lp) ==
    IF lp.timeoutRef # 0
    THEN [lp EXCEPT !.timeouts = {x \in @ : x.id # lp.timeoutRef}, !.timeoutRef = 0]
    ELSE lp

\* the handle setTimeout returns: one no timeout set and not yet fired has
TimeoutId(lp) ==
    CHOOSE id \in 1..(Cardinality(lp.timeouts) + 2) :
        /\ id # lp.timeoutRef
        /\ \A x \in lp.timeouts : x.id # id
        /\ \A other \in 1..(id - 1) :
              other = lp.timeoutRef \/ \E x \in lp.timeouts : x.id = other

StartLoading(lp) ==
    [ClearTimeoutRef(lp) EXCEPT !.isLoading = TRUE, !.isCollapsing = FALSE, !.progress = 0]

SetLoadingProgress(lp, value) == [lp EXCEPT !.progress = Min(100, Max(0, value))]

CompleteLoading(lp) ==
    LET cleared == ClearTimeoutRef(lp)
        timeout1 == TimeoutId(cleared)
    IN [cleared EXCEPT !.progress = 100,
                       !.timeouts = @ \cup {[id |-> timeout1, callback |-> "collapse",
                                             left |-> CollapseDelay]},
                       !.timeoutRef = timeout1]

\* the callback of timeout1, x being its timeout
Collapse(lp, x) ==
    LET fired == [lp EXCEPT !.timeouts = @ \ {x}]
        timeout2 == TimeoutId(fired)
    IN [fired EXCEPT !.isCollapsing = TRUE,
                     !.timeouts = @ \cup {[id |-> timeout2, callback |-> "reset",
                                           left |-> ResetDelay]},
                     !.timeoutRef = timeout2]

\* the callback of timeout2
Reset(lp, x) ==
    [lp EXCEPT !.timeouts = @ \ {x}, !.isLoading = FALSE, !.isCollapsing = FALSE,
               !.progress = 0, !.timeoutRef = 0]

LoadingInit ==
    /\ ComponentIdle
    /\ record = NoRecord
    /\ filters = DefaultPeopleFilters
    /\ decision = "unset"
    /\ panel = <<>>
    /\ searchParams = NoParams
    /\ projectCarouselIndex = 0
    /\ loadingProgress = ProviderInitial

ProviderStep(lp) ==
    /\ loadingProgress' = lp
    /\ ComponentUnchanged
    /\ UNCHANGED <<record, filters, decision, panel, searchParams, projectCarouselIndex>>

\* fetchData or fetchPersonAndList / fetchProjectAndList up to its await
BeginLoad ==
    /\ Len(loadingProgress.callers) < MaxLoads
    /\ \E kind \in {"grid", "detail"} :
          ProviderStep(
             [SetLoadingProgress(SetLoadingProgress(StartLoading(loadingProgress), 10), 30)
                 EXCEPT !.callers = Append(@, kind)])

\* the same fetch after its await, on success and in its catch block
EndLoad ==
    \E i \in 1..Len(loadingProgress.callers) :
       LET most == IF loadingProgress.callers[i] = "grid" THEN 80 ELSE 70
       IN ProviderStep(
             [CompleteLoading(SetLoadingProgress(SetLoadingProgress(loadingProgress, most), 100))
                 EXCEPT !.callers = RemoveAt(@, i)])

\* 100 ms pass
ProviderTick ==
    /\ \E x \in loadingProgress.timeouts : x.left > 0
    /\ ProviderStep([loadingProgress EXCEPT
                        !.timeouts = {[x EXCEPT !.left = Max(0, @ - 1)] : x \in @}])

CollapseTimeoutFire ==
    \E x \in loadingProgress.timeouts :
       /\ x.callback = "collapse" /\ x.left = 0
       /\ ProviderStep(Collapse(loadingProgress, x))

ResetTimeoutFire ==
    \E x \in loadingProgress.timeouts :
       /\ x.callback = "reset" /\ x.left = 0
       /\ ProviderStep(Reset(loadingProgress, x))

LoadingNext ==
    \/ BeginLoad
    \/ EndLoad
    \/ ProviderTick
    \/ CollapseTimeoutFire
    \/ ResetTimeoutFire

\* a timeout that is due fires, and time does not stop
LoadingSpec ==
    /\ LoadingInit
    /\ [][LoadingNext]_vars
    /\ WF_vars(ProviderTick)
    /\ WF_vars(CollapseTimeoutFire)
    /\ WF_vars(ResetTimeoutFire)

\* a timeout of completeLoading is set and has not fired
TimeoutPending == loadingProgress.timeouts # {}

\* the bar is hidden and reset
ProviderIdle ==
    /\ ~loadingProgress.isLoading
    /\ ~loadingProgress.isCollapsing
    /\ loadingProgress.progress = 0
    /\ loadingProgress.timeouts = {}

\* the cycle after completeLoading: the reset comes out of a collapsing bar at
\* 100, and it comes unless startLoading intervenes
CycleCompletes ==
    /\ [][(ProviderIdle' /\ ~ProviderIdle)
             => (loadingProgress.isCollapsing /\ loadingProgress.progress = 100)]_vars
    /\ TimeoutPending ~> (ProviderIdle \/ (loadingProgress.isLoading /\ ~TimeoutPending))

\* startLoading cancels what completeLoading has set: no timeout stays set
\* after it, and a timeout that is set is the one timeoutRef holds
StartCancels ==
    /\ [][Len(loadingProgress'.callers) > Len(loadingProgress.callers)
             => loadingProgress'.timeouts = {}]_vars
    /\ [](\A x \in loadingProgress.timeouts : x.id = loadingProgress.timeoutRef)

ProgressInRange == loadingProgress.progress \in 0..100

CollapsingIsLoading == loadingProgress.isCollapsing => loadingProgress.isLoading

\* C38: the loading-progress provider always completes its cycle: after
\* completeLoading, if no startLoading intervenes, it passes through
\* progress = 100 and isCollapsing = true and eventually reaches isLoading =
\* false, isCollapsing = false, progress = 0; a startLoading issued after
\* completeLoading cancels the pending collapse and reset; in every state
\* progress is within 0..100 and isCollapsing implies isLoading.
C38_ProviderCompletesCycle ==
    /\ CycleCompletes
    /\ StartCancels
    /\ []ProgressInRange
    /\ []CollapsingIsLoading

\* ------------------------------------------------ the project carousel, C39
\* CarouselSpec: the carousel of the person's projects on the detail card.
\* record is the person displayed (NoRecord for null), filters the project
\* filters with the debounced search term.
CarouselPersons ==
    {[kind |-> "person", projects |-> projects] :
        projects \in {<<>>, SubSeq(FiveProjects, 1, 2), SubSeq(FiveProjects, 1, 4),
                      SubSeq(FiveProjects, 2, 5), FiveProjects,
                      FiveProjects \o SubSeq(FiveProjects, 1, 2)}}

\* filteredPersonProjects for the person p under the filters f
CarouselProjects(p, f) ==
    IF p.kind = "person" THEN FilterPersonProjects(p.projects, f.search, f) ELSE <<>>

\* Math.floor((filteredPersonProjects.length - 1) / 3) * 3
CarouselMaxIndex(n) == ((n - 1) \div 3) * 3

\* the reset effect with the filters alone as its dependencies
CarouselResetIgnoresLength(p, f, q, g, index) ==
    IF f.search # g.search \/ f.skills # g.skills \/ f.sectors # g.sectors
    THEN 0
    ELSE index

\* the effect that resets the carousel, the render of person p and filters f
\* being followed by the render of q and g: it runs when the length of
\* filteredPersonProjects, the debounced term, the skills or the sectors differ
\* (arrays are compared by identity: a handler that leaves their values as they
\* were makes the effect run all the same, which resets the index once more)
CarouselResetEffect(p, f, q, g, index) ==
    IF \/ Len(CarouselProjects(p, f)) # Len(CarouselProjects(q, g))
       \/ f.search # g.search
       \/ f.skills # g.skills
       \/ f.sectors # g.sectors
    THEN 0
    ELSE index

CarouselInit ==
    /\ ComponentIdle
    /\ record \in CarouselPersons
    /\ filters = DefaultProjectFilters
    /\ projectCarouselIndex = 0
    /\ decision = "unset"
    /\ panel = <<>>
    /\ searchParams = NoParams
    /\ loadingProgress = ProviderInitial

CarouselStep(q, g, index) ==
    /\ record' = q
    /\ filters' = g
    /\ projectCarouselIndex' = CarouselResetEffect(record, filters, q, g, index)
    /\ ComponentUnchanged
    /\ UNCHANGED <<decision, panel, searchParams, loadingProgress>>

\* the buttons are there for more than three projects
CarouselShown == Len(CarouselProjects(record, filters)) > 3

CarouselPrevious ==
    /\ CarouselShown
    /\ projectCarouselIndex # 0
    /\ CarouselStep(record, filters, Max(0, projectCarouselIndex - 3))

CarouselNext ==
    /\ CarouselShown
    /\ ~(projectCarouselIndex >= CarouselMaxIndex(Len(CarouselProjects(record, filters))))
    /\ CarouselStep(record, filters,
                    Min(CarouselMaxIndex(Len(CarouselProjects(record, filters))),
                        projectCarouselIndex + 3))

\* a project filter is changed, or the debounced term catches up with a new text
ChangeProjectFilters ==
    \E g \in ProjectFilterValues :
       /\ g # filters
       /\ CarouselStep(record, g, projectCarouselIndex)

\* setPerson: another person's response is applied, or the route changes and
\* the pathname effect sets the person to null
ChangePerson ==
    \E q \in CarouselPersons \cup {NoRecord} :
       /\ q # record
       /\ CarouselStep(q, filters, projectCarouselIndex)

CarouselSteps ==
    \/ CarouselPrevious
    \/ CarouselNext
    \/ ChangeProjectFilters
    \/ ChangePerson

CarouselSpec == CarouselInit /\ [][CarouselSteps]_vars

\* C39: the index of the person's project carousel is always a multiple of 3
\* with 0 <= index <= 3 * floor((n - 1) / 3), n being the number of filtered
\* embedded projects, and 0 when n = 0, after any sequence of carousel steps,
\* project filter changes and changes of the person displayed.
C39_CarouselIndexOnPage ==
    LET n == Len(CarouselProjects(record, filters))
    IN /\ projectCarouselIndex % 3 = 0
       /\ projectCarouselIndex >= 0
       /\ n = 0 => projectCarouselIndex = 0
       /\ n > 0 => projectCarouselIndex <= 3 * ((n - 1) \div 3)

\* the carousel stands on its last page of a person with seven projects
C39_Witness ==
    /\ record \in CarouselPersons
    /\ Len(CarouselProjects(record, filters)) = 7
    /\ projectCarouselIndex = 6
====
